---- MODULE Spec2Model ----
(***************************************************************************)
(* State-machine model of the terminal data browser "dug":                 *)
(*   - the navigation reducer (src/src/hooks/use-navigation.ts)            *)
(*   - the Harper query client: connect, TTL cache, retry loop, searches   *)
(*     (src/unnamed/part_006, the file the tests import as api/client.js)  *)
(***************************************************************************)
EXTENDS Integers, Sequences, FiniteSets, TLC

VARIABLES
    \* ---- navigation (useReducer state) ----
    navState,     \* [ref, stack]: the NavigationState object held by useReducer
    prevNav,      \* the state object that was handed to the last reducer call
    lastAction,   \* type of the last dispatched NavigationAction ("NONE" before any)
    rootEntry,    \* the frame useNavigation() built the initial state from
    nextRef,      \* allocation counter: reference of the next object literal
    \* ---- HarperClient fields ----
    url, authHeader, connected, schemaCache,
    \* ---- environment of the client ----
    now,          \* Date.now()
    ticks,        \* clock ticks taken so far
    calls,        \* the async method invocations, one record per slot
    lastStore,    \* when the newest describe_all response still standing was
                  \* stored (-1: none since the last clear)
    \* ---- relationship inference ----
    relInput,     \* the arguments of one inferRelationships call
    relResult,    \* [done, edges]: whether it has returned, and what
    \* ---- DataTable ----
    tableProps,   \* what one render of DataTable is given
    tableView,    \* [rendered, ...]: the row and column windows it computed
    \* ---- TableScreen ----
    tableScreen,  \* the state cells of the table screen and its requests in flight
    \* ---- useApi ----
    hook,         \* one coordinator: its state cells, refs and calls in flight
    \* ---- App: global key handling ----
    app,          \* quitting, qPending, ready, timers, clock, the last keypress
    \* ---- recent connections (~/.dug/connections.json) ----
    connFile,     \* the content of the file
    saved         \* the pairs written by saveConnection, oldest first

navVars == <<navState, prevNav, lastAction, rootEntry, nextRef>>
clientVars == <<url, authHeader, connected, schemaCache, now, ticks, calls, lastStore>>
relVars == <<relInput, relResult>>
tableVars == <<tableProps, tableView, tableScreen>>
connVars == <<connFile, saved>>
uiVars == <<tableProps, tableView, tableScreen, hook, app, connFile, saved>>
vars == <<navState, prevNav, lastAction, rootEntry, nextRef,
          url, authHeader, connected, schemaCache, now, ticks, calls, lastStore,
          relInput, relResult,
          tableProps, tableView, tableScreen, hook, app, connFile, saved>>

(***************************************************************************)
(* Bounds of the model                                                     *)
(***************************************************************************)
MaxDepth == 3      \* frames on the navigation stack
MaxRefs == 5       \* NavigationState objects allocated in one run

(***************************************************************************)
(* Navigation state machine                                                *)
(***************************************************************************)
ScreenNames == {"connect", "dashboard", "database", "table", "record", "system"}

\* parameter bags, as sets of <<key, value>> pairs
ParamBags == { {}, {<<"db", "data">>} }

ScreenEntries == [screen : ScreenNames, params : ParamBags]

NavActions ==
    [type : {"PUSH"}, screen : ScreenNames, params : ParamBags]
        \cup { [type |-> "POP"], [type |-> "RESET"] }

\* reducer(state, action); ref is the object identity of the returned state:
\* every object literal `{ stack: ... }` is a new object, `return state` is not.
reducer_ResetKeepsLast(state, action, fresh) ==
    CASE action.type = "PUSH" ->
            [ref |-> fresh,
             stack |-> Append(state.stack,
                              [screen |-> action.screen, params |-> action.params])]
      [] action.type = "POP" ->
            IF Len(state.stack) <= 1 THEN state
            ELSE [ref |-> fresh, stack |-> SubSeq(state.stack, 1, Len(state.stack) - 1)]
      [] action.type = "RESET" ->
            [ref |-> fresh, stack |-> <<state.stack[Len(state.stack)]>>]
      [] OTHER -> state

reducer_PopUnguarded(state, action, fresh) ==
    CASE action.type = "PUSH" ->
            [ref |-> fresh,
             stack |-> Append(state.stack,
                              [screen |-> action.screen, params |-> action.params])]
      [] action.type = "POP" ->
            [ref |-> fresh, stack |-> SubSeq(state.stack, 1, Len(state.stack) - 1)]
      [] action.type = "RESET" ->
            [ref |-> fresh, stack |-> <<state.stack[1]>>]
      [] OTHER -> state

reducer(state, action, fresh) ==
    CASE action.type = "PUSH" ->
            [ref |-> fresh,
             stack |-> Append(state.stack,
                              [screen |-> action.screen, params |-> action.params])]
      [] action.type = "POP" ->
            IF Len(state.stack) <= 1 THEN state
            ELSE [ref |-> fresh, stack |-> SubSeq(state.stack, 1, Len(state.stack) - 1)]
      [] action.type = "RESET" ->
            [ref |-> fresh, stack |-> <<state.stack[1]>>]
      [] OTHER -> state

\* useNavigation(initialScreen): useReducer(reducer, {stack: [{screen, params: {}}]})
InitNav ==
    /\ rootEntry \in [screen : ScreenNames, params : {{}}]
    /\ navState = [ref |-> 0, stack |-> <<rootEntry>>]
    /\ prevNav = navState
    /\ lastAction = "NONE"
    /\ nextRef = 1

\* dispatch(action): React replaces the held state by reducer(state, action)
Dispatch(action) ==
    /\ prevNav' = navState
    /\ navState' = reducer(navState, action, nextRef)
    /\ lastAction' = action.type
    /\ nextRef' = IF navState'.ref = nextRef THEN nextRef + 1 ELSE nextRef
    /\ UNCHANGED <<rootEntry, clientVars, relVars, uiVars>>

\* push(screen, params), pop(), reset(); the guards keep the run within the bounds
Push ==
    /\ nextRef <= MaxRefs
    /\ Len(navState.stack) < MaxDepth
    /\ \E s \in ScreenNames, p \in ParamBags :
            Dispatch([type |-> "PUSH", screen |-> s, params |-> p])
Pop ==
    /\ nextRef <= MaxRefs
    /\ Dispatch([type |-> "POP"])
Reset ==
    /\ nextRef <= MaxRefs
    /\ Dispatch([type |-> "RESET"])

(***************************************************************************)
(* Strings: the JavaScript string operations the client uses               *)
(***************************************************************************)
UpperLetters == "ABCDEFGHIJKLMNOPQRSTUVWXYZ"
LowerLetters == "abcdefghijklmnopqrstuvwxyz"

LowerChar(ch) ==
    IF \E i \in 1..26 : SubSeq(UpperLetters, i, i) = ch
    THEN LET i == CHOOSE j \in 1..26 : SubSeq(UpperLetters, j, j) = ch
         IN SubSeq(LowerLetters, i, i)
    ELSE ch

RECURSIVE toLowerCase(_)
toLowerCase(str) ==
    IF Len(str) = 0 THEN ""
    ELSE LowerChar(SubSeq(str, 1, 1)) \o toLowerCase(SubSeq(str, 2, Len(str)))

includes(str, sub) ==
    \E i \in 1..(Len(str) - Len(sub) + 1) : SubSeq(str, i, i + Len(sub) - 1) = sub

startsWith(str, prefix) ==
    Len(str) >= Len(prefix) /\ SubSeq(str, 1, Len(prefix)) = prefix

\* url.replace(/\/+$/, '')
RECURSIVE stripTrailingSlashes(_)
stripTrailingSlashes(str) ==
    IF Len(str) > 0 /\ SubSeq(str, Len(str), Len(str)) = "/"
    THEN stripTrailingSlashes(SubSeq(str, 1, Len(str) - 1))
    ELSE str

\* btoa(): an injective encoding of the credential pair; its digits play no
\* part in any behaviour of the client
btoa(str) == "b64<" \o str \o ">"

(***************************************************************************)
(* Errors and HTTP responses                                               *)
(***************************************************************************)
Err(name, message) == [name |-> name, message |-> message]
NoError == Err("none", "")

\* what fetch() rejects with; "some random error" is the non-network error of
\* the client tests
FetchErrors ==
    { Err("TypeError", "fetch failed"),
      Err("Error", "connect ECONNREFUSED 127.0.0.1:9925"),
      Err("Error", "connect ETIMEDOUT"),
      Err("Error", "The operation was aborted"),
      Err("Error", "some random error") }

\* the fetch() rejections that are network failures (all but the last)
NetworkFailures == FetchErrors \ { Err("Error", "some random error") }

\* response.statusText
StatusText(status) ==
    CASE status = 400 -> "Bad Request"
      [] status = 401 -> "Unauthorized"
      [] status = 500 -> "Internal Server Error"
      [] OTHER -> "OK"

\* the statuses of the server's error responses
ErrorStatuses == {400, 401, 500}
ErrorTexts == {"", "Unauthorized", "Transaction aborted"}

\* A response of the transport to one fetch attempt: either fetch rejects
\* (thrown) or it resolves with a status; a 2xx carries a payload that is valid,
\* has the wrong shape, or is not JSON; a non-2xx carries a body text.
Resp(status, text, payload, thrown) ==
    [status |-> status, text |-> text, payload |-> payload, thrown |-> thrown]
NoResp == Resp(0, "", "none", NoError)

OkResponses == { Resp(200, "", p, NoError) : p \in {"valid", "badshape", "badjson"} }
ErrorResponses == { Resp(st, t, "none", NoError) : st \in ErrorStatuses, t \in ErrorTexts }
ThrownResponses == { Resp(0, "", "none", e) : e \in FetchErrors }
Responses == OkResponses \cup ErrorResponses \cup ThrownResponses

\* the responses of a healthy and of a plainly failing server
CoreResponses ==
    { Resp(200, "", "valid", NoError),
      Resp(401, "Unauthorized", "none", NoError),
      Resp(0, "", "none", Err("TypeError", "fetch failed")) }

\* `Harper API error (${response.status}): ${text || response.statusText}`
ApiErrorMessage(resp) ==
    "Harper API error (" \o ToString(resp.status) \o "): "
        \o (IF resp.text # "" THEN resp.text ELSE StatusText(resp.status))

\* response.json() rejecting on a body that is not JSON
JsonSyntaxError == Err("SyntaxError", "Unexpected token < in JSON at position 0")

\* new Error(formatZodError(err)): "Unexpected response shape:\n  path: message"
ShapeError == Err("Error", "Unexpected response shape: data.User.name: Required")

\* every error value execute() can hold
ExecuteErrors ==
    FetchErrors \cup { Err("Error", ApiErrorMessage(r)) : r \in ErrorResponses }
        \cup {JsonSyntaxError, ShapeError}

isNetworkError(error) ==
    \/ error.name = "TypeError"
    \/ LET msg == toLowerCase(error.message)
       IN \/ includes(msg, "fetch failed")
          \/ includes(msg, "econnrefused")
          \/ includes(msg, "econnreset")
          \/ includes(msg, "etimedout")
          \/ includes(msg, "enetunreach")
          \/ includes(msg, "socket hang up")
          \/ includes(msg, "abort")

(***************************************************************************)
(* HarperClient.execute: the retry loop                                    *)
(***************************************************************************)
MAX_RETRIES == 3
INITIAL_BACKOFF_MS == 500
cacheTTL == 60000

RECURSIVE Pow2(_)
Pow2(n) == IF n <= 0 THEN 1 ELSE 2 * Pow2(n - 1)

\* the argument of sleep() before attempt number `attempt` (attempt > 0)
backoff_FromAttempt(attempt) == INITIAL_BACKOFF_MS * Pow2(attempt)

backoff(attempt) == INITIAL_BACKOFF_MS * Pow2(attempt - 1)

\* the catch block of one attempt: rethrow, or keep the error and loop
catchOutcome(error) ==
    IF ~isNetworkError(error) /\ ~startsWith(error.message, "Harper API error (5")
    THEN [act |-> "throw", error |-> error]
    ELSE [act |-> "retry", error |-> error]

\* the body of the try block for one response: return, throw, or loop
attemptOutcome(resp) ==
    IF resp.thrown # NoError THEN catchOutcome(resp.thrown)
    ELSE IF ~(resp.status >= 200 /\ resp.status <= 299)
    THEN IF resp.status >= 400 /\ resp.status < 500
         THEN catchOutcome(Err("Error", ApiErrorMessage(resp)))
         ELSE [act |-> "retry", error |-> Err("Error", ApiErrorMessage(resp))]
    ELSE IF resp.payload = "badjson" THEN catchOutcome(JsonSyntaxError)
    ELSE [act |-> "return", error |-> NoError]

attemptOutcomeOf == [r \in Responses |-> attemptOutcome(r)]

(***************************************************************************)
(* More bounds                                                             *)
(***************************************************************************)
MaxCalls == 2      \* async client calls that may be in flight together
MaxTicks == 3      \* clock ticks (of half a TTL each) in one run

(***************************************************************************)
(* HarperClient: cache                                                     *)
(***************************************************************************)
NoFields == [f \in {} |-> 0]
Field(present, name, value) == IF present THEN name :> value ELSE NoFields

\* schemaCache is a Map: a function from the keys present to CacheEntry
\* getCached(key) at time t: [hit, data, cache], cache being the map afterwards
getCached_NoExpiry(cache, key, t) ==
    IF key \notin DOMAIN cache
    THEN [hit |-> FALSE, data |-> NoFields, cache |-> cache]
    ELSE [hit |-> TRUE, data |-> cache[key].data, cache |-> cache]

getCached(cache, key, t) ==
    IF key \notin DOMAIN cache
    THEN [hit |-> FALSE, data |-> NoFields, cache |-> cache]
    ELSE IF t - cache[key].timestamp > cacheTTL
    THEN [hit |-> FALSE, data |-> NoFields,
          cache |-> [k \in DOMAIN cache \ {key} |-> cache[k]]]
    ELSE [hit |-> TRUE, data |-> cache[key].data, cache |-> cache]

setCache(cache, key, data, t) ==
    [k \in DOMAIN cache \cup {key} |->
        IF k = key THEN [data |-> data, timestamp |-> t] ELSE cache[k]]

(***************************************************************************)
(* HarperClient: request bodies of the search operations                   *)
(***************************************************************************)
Has(params, name) == name \in DOMAIN params
\* JavaScript truthiness of an optional string parameter (arrays and objects are
\* truthy whenever they are present)
Truthy(params, name) == Has(params, name) /\ params[name] # ""

searchByValueBody_NoOffset(params) ==
    [operation |-> "search_by_value",
     table |-> params.table,
     search_attribute |-> params.attribute,
     search_value |-> params.value]
      @@ Field(Truthy(params, "database"), "schema",
               IF Has(params, "database") THEN params.database ELSE "")
      @@ Field(Has(params, "getAttributes"), "get_attributes",
               IF Has(params, "getAttributes") THEN params.getAttributes ELSE <<>>)
      @@ Field(Has(params, "limit"), "limit",
               IF Has(params, "limit") THEN params.limit ELSE 0)

searchByValueBody(params) ==
    [operation |-> "search_by_value",
     table |-> params.table,
     search_attribute |-> params.attribute,
     search_value |-> params.value]
      @@ Field(Truthy(params, "database"), "schema",
               IF Has(params, "database") THEN params.database ELSE "")
      @@ Field(Has(params, "getAttributes"), "get_attributes",
               IF Has(params, "getAttributes") THEN params.getAttributes ELSE <<>>)
      @@ Field(Has(params, "limit"), "limit",
               IF Has(params, "limit") THEN params.limit ELSE 0)
      @@ Field(Has(params, "offset"), "offset",
               IF Has(params, "offset") THEN params.offset ELSE 0)

\* the object literal searchByConditions hands to searchByValue; a property
\* holding undefined is the same as a missing one to every test in searchByValue
fallbackParams(params) ==
    [table |-> params.table,
     attribute |-> IF Has(params, "hashAttribute") THEN params.hashAttribute
                   ELSE IF Has(params, "sort") THEN params.sort.attribute
                   ELSE "id",
     value |-> "*"]
      @@ Field(Has(params, "database"), "database",
               IF Has(params, "database") THEN params.database ELSE "")
      @@ Field(Has(params, "getAttributes"), "getAttributes",
               IF Has(params, "getAttributes") THEN params.getAttributes ELSE <<>>)
      @@ Field(Has(params, "limit"), "limit",
               IF Has(params, "limit") THEN params.limit ELSE 0)
      @@ Field(Has(params, "offset"), "offset",
               IF Has(params, "offset") THEN params.offset ELSE 0)

conditionsBody(params) ==
    [operation |-> "search_by_conditions",
     table |-> params.table,
     conditions |-> params.conditions]
      @@ Field(Truthy(params, "database"), "schema",
               IF Has(params, "database") THEN params.database ELSE "")
      @@ Field(Truthy(params, "operator"), "operator",
               IF Has(params, "operator") THEN params.operator ELSE "")
      @@ Field(Has(params, "offset"), "offset",
               IF Has(params, "offset") THEN params.offset ELSE 0)
      @@ Field(Has(params, "limit"), "limit",
               IF Has(params, "limit") THEN params.limit ELSE 0)
      @@ Field(Has(params, "sort"), "sort",
               IF Has(params, "sort") THEN params.sort ELSE NoFields)
      @@ Field(Has(params, "getAttributes"), "get_attributes",
               IF Has(params, "getAttributes") THEN params.getAttributes ELSE <<>>)

\* the body searchByConditions(params) passes to execute()
searchByConditionsBody_HashOnly(params) ==
    IF Len(params.conditions) = 0
    THEN searchByValueBody(
            [fallbackParams(params) EXCEPT
                !.attribute = IF Has(params, "hashAttribute")
                              THEN params.hashAttribute ELSE "id"])
    ELSE conditionsBody(params)

searchByConditionsBody(params) ==
    IF Len(params.conditions) = 0
    THEN searchByValueBody(fallbackParams(params))
    ELSE conditionsBody(params)

(***************************************************************************)
(* HarperClient: connect, describeAll, clearCache over the retry loop      *)
(***************************************************************************)
CallIds == 1..MaxCalls

\* JavaScript values as the describe methods see them: a plain object with its
\* own properties, a function, or undefined
Obj(props) == [kind |-> "object", props |-> props]
Fn(name) == [kind |-> "function", name |-> name]
Undefined == [kind |-> "undefined"]

\* properties every plain object and every function inherits from its prototype
ObjectPrototypeKeys == {"constructor", "toString"}

\* value[key]: an own property, else an inherited one, else undefined
ObjectGet(value, key) ==
    IF value.kind = "object" /\ key \in DOMAIN value.props THEN value.props[key]
    ELSE IF key \in ObjectPrototypeKeys THEN Fn(key)
    ELSE Undefined

\* a table schema as DescribeAllResponseSchema.parse leaves it
TableSchemaValue(db, t) == Obj([schema |-> db, name |-> t, hash_attribute |-> "id"])

\* the parsed describe_all response of a healthy server: database -> table -> schema
Discovery ==
    "data" :> Obj("User" :> TableSchemaValue("data", "User")
                    @@ "Order" :> TableSchemaValue("data", "Order"))

\* DescribeAllResponseSchema.parse(raw) of a valid response fetched from `endpoint`
DescribeAllValue(endpoint) ==
    [kind |-> "object", props |-> Discovery, endpoint |-> endpoint]

\* the arguments the describe methods are called with: names the discovery
\* result has and names it does not have
DatabaseArgs == {"data", "nope", "constructor"}
TableArgs == {"User", "Nope", "toString"}
DescribeArgs == [database : DatabaseArgs, table : TableArgs]

dbKey(database) == "describe_db:" \o database
tableKey(database, table) == "describe_table:" \o database \o "." \o table

\* TableSchemaSchema.parse(tbl) rejecting a value that is not a schema object
TableShapeError ==
    Err("Error", "Unexpected response shape: : Expected object, received function")

\* the outcome of a method, or of a part of one: [ok, value, error, cache]
Outcome(ok, value, error, cache) ==
    [ok |-> ok, value |-> value, error |-> error, cache |-> cache]

\* describeDatabase(database) from `const db = all[database]` on
describeDatabaseFrom(all, database, cache, t) ==
    LET db == ObjectGet(all, database)
    IN IF db = Undefined
       THEN Outcome(FALSE, Undefined,
                    Err("Error", "Database \"" \o database \o "\" not found"), cache)
       ELSE Outcome(TRUE, db, NoError, setCache(cache, dbKey(database), db, t))

\* describeTable(database, table) from `const tbl = db[table]` on
describeTableFrom(db, database, table, cache, t) ==
    LET tbl == ObjectGet(db, table)
    IN IF tbl = Undefined
       THEN Outcome(FALSE, Undefined,
                    Err("Error", "Table \"" \o table \o "\" not found in database \""
                                     \o database \o "\""), cache)
       ELSE IF tbl.kind # "object"
       THEN Outcome(FALSE, Undefined, TableShapeError, cache)
       ELSE Outcome(TRUE, tbl, NoError, setCache(cache, tableKey(database, table), tbl, t))

\* what a method does with the value `all` its describeAll() resolved with
afterDescribeAll(op, args, all, cache, t) ==
    IF op = "describeDatabase"
    THEN describeDatabaseFrom(all, args.database, cache, t)
    ELSE IF op = "describeTable"
    THEN LET d == describeDatabaseFrom(all, args.database, cache, t)
         IN IF d.ok
            THEN describeTableFrom(d.value, args.database, args.table, d.cache, t)
            ELSE d
    ELSE Outcome(TRUE, all, NoError, cache)

ConnectArgs ==
    { [url |-> "http://a:9925/", username |-> "admin", password |-> "pw"],
      [url |-> "http://b:9925", username |-> "HDB_ADMIN", password |-> "secret"] }

\* the catch block of connect(): the error it rethrows (the source's message
\* has a dash character before "is it running?")
connectError(error, urlArg) ==
    LET msg == toLowerCase(error.message)
    IN IF includes(msg, "401") \/ includes(msg, "unauthorized")
       THEN Err("Error", "Authentication failed: invalid username or password")
       ELSE IF includes(msg, "econnrefused") \/ includes(msg, "fetch failed")
       THEN Err("Error", "Cannot reach Harper instance at " \o urlArg \o " - is it running?")
       ELSE Err("Error", "Failed to connect to Harper: " \o error.message)

connectErrorOf ==
    [e \in ExecuteErrors, a \in ConnectArgs |-> connectError(e, a.url)]

IdleCall ==
    [op |-> "none", phase |-> "idle", attempt |-> 0, body |-> NoFields,
     params |-> NoFields, args |-> NoFields,
     lastError |-> NoError, lastResp |-> NoResp, fetches |-> 0, sleeps |-> <<>>,
     wakeAt |-> 0, reqUrl |-> "", reqAuth |-> "", reqMethod |-> "", sent |-> NoFields,
     log |-> <<>>,
     result |-> "none", error |-> NoError, cause |-> NoError,
     value |-> NoFields, ageAtStart |-> -1]

Free(c) == calls[c].phase \in {"idle", "done"}

\* a method invoked with nothing done yet: execute(body) is about to run
NewCall(op, body) == [IdleCall EXCEPT !.op = op, !.body = body]

\* const op = body.operation ?? 'unknown'
opName(body) == IF "operation" \in DOMAIN body THEN body.operation ELSE "unknown"

\* A record handed to the logger: its level, the operation name it carries,
\* whether it carries the elapsed time of the attempt, and the outcome it states
LogRecord(level, op, elapsed, outcome) ==
    [level |-> level, op |-> op, elapsed |-> elapsed, outcome |-> outcome]

\* the records one loop iteration writes before its fetch(): log.warn on a
\* retry, then log.debug with the request body
logBeforeFetch(body, attempt) ==
    (IF attempt > 0 THEN <<LogRecord("warn", opName(body), FALSE, "retry")>> ELSE <<>>)
        \o <<LogRecord("debug", opName(body), FALSE, "none")>>

\* the records one loop iteration writes once its fetch() has settled with resp:
\* log.error for a non-2xx, log.info for a 2xx, nothing in the catch block
logAfterFetch(body, resp) ==
    IF resp.thrown # NoError THEN <<>>
    ELSE IF ~(resp.status >= 200 /\ resp.status <= 299)
    THEN <<LogRecord("error", opName(body), TRUE, "failed")>>
    ELSE <<LogRecord("info", opName(body), TRUE, "OK")>>

\* fetch(this.url, {method: 'POST', headers: {Authorization: this.authHeader},
\*                  body: JSON.stringify(body)}) with the fields as they are now
Fetch(call, u, a) ==
    [call EXCEPT !.phase = "fetching", !.fetches = @ + 1,
                 !.reqUrl = u, !.reqAuth = a, !.reqMethod = "POST",
                 !.sent = call.body,
                 !.log = logBeforeFetch(call.body, call.attempt)]

Returned(call, value) ==
    [call EXCEPT !.phase = "done", !.result = "ok", !.value = value]

Threw(call, error) ==
    [call EXCEPT !.phase = "done", !.result = "error", !.error = error]

InitClient ==
    /\ url = ""
    /\ authHeader = ""
    /\ connected = FALSE
    /\ schemaCache = NoFields
    /\ now = 0
    /\ ticks = 0
    /\ calls = [c \in CallIds |-> IdleCall]
    /\ lastStore = -1

\* connect(url, username, password) up to its first suspension, inside
\* describeAll() -> execute() -> fetch()
StartConnect(c, a) ==
    /\ Free(c)
    /\ url' = stripTrailingSlashes(a.url)
    /\ authHeader' = "Basic " \o btoa(a.username \o ":" \o a.password)
    /\ connected' = FALSE
    /\ schemaCache' = NoFields
    /\ lastStore' = -1
    /\ calls' = [calls EXCEPT ![c] =
                    Fetch([NewCall("connect", [operation |-> "describe_all"])
                              EXCEPT !.args = a],
                          url', authHeader')]
    /\ UNCHANGED <<now, ticks, navVars, relVars, uiVars>>

\* describeAll(): served from the cache, or on to execute() -> fetch()
StartDescribeAll_Dedup(c) ==
    LET got == getCached(schemaCache, "describe_all", now)
        new == [NewCall("describeAll", [operation |-> "describe_all"])
                   EXCEPT !.ageAtStart = IF lastStore >= 0 THEN now - lastStore ELSE -1]
        pending == \E d \in CallIds \ {c} :
                      calls[d].op = "describeAll" /\ ~Free(d)
    IN /\ Free(c)
       /\ schemaCache' = got.cache
       /\ calls' = [calls EXCEPT ![c] =
                       IF got.hit \/ pending THEN Returned(new, got.data)
                       ELSE Fetch(new, url, authHeader)]
       /\ UNCHANGED <<url, authHeader, connected, now, ticks, lastStore, navVars, relVars, uiVars>>

StartDescribeAll(c) ==
    LET got == getCached(schemaCache, "describe_all", now)
        new == [NewCall("describeAll", [operation |-> "describe_all"])
                   EXCEPT !.ageAtStart = IF lastStore >= 0 THEN now - lastStore ELSE -1]
    IN /\ Free(c)
       /\ schemaCache' = got.cache
       /\ calls' = [calls EXCEPT ![c] =
                       IF got.hit THEN Returned(new, got.data)
                       ELSE Fetch(new, url, authHeader)]
       /\ UNCHANGED <<url, authHeader, connected, now, ticks, lastStore, navVars, relVars, uiVars>>

\* clearCache()
ClearCache ==
    /\ schemaCache # NoFields
    /\ schemaCache' = NoFields
    /\ lastStore' = -1
    /\ UNCHANGED <<url, authHeader, connected, now, ticks, calls, navVars, relVars, uiVars>>

\* the method awaiting execute() resumes with a thrown error (cause keeps the
\* error as it reached the method)
OpThrew(c, call, error) ==
    IF call.op = "connect"
    THEN /\ url' = ""
         /\ authHeader' = ""
         /\ calls' = [calls EXCEPT ![c] =
                         Threw([call EXCEPT !.cause = error],
                               connectErrorOf[error, call.args])]
         /\ UNCHANGED <<connected, schemaCache, lastStore>>
    ELSE /\ calls' = [calls EXCEPT ![c] = Threw([call EXCEPT !.cause = error], error)]
         /\ UNCHANGED <<url, authHeader, connected, schemaCache, lastStore>>

\* the methods that go through describeAll(), and those whose response is
\* validated against a schema
DescribeOps == {"connect", "describeAll", "describeDatabase", "describeTable"}
ParsedOps == DescribeOps \cup {"systemInformation"}

\* the method awaiting execute() resumes with the parsed JSON of a 2xx response
OpReturned(c, call, resp) ==
    IF call.op \in ParsedOps /\ resp.payload # "valid"
    THEN OpThrew(c, call, ShapeError)
    ELSE IF call.op \in DescribeOps
    THEN LET parsed == DescribeAllValue(call.reqUrl)
             stored == setCache(schemaCache, "describe_all", parsed, now)
             out == afterDescribeAll(call.op, call.args, parsed, stored, now)
         IN /\ schemaCache' = out.cache
            /\ lastStore' = now
            /\ connected' = IF call.op = "connect" THEN TRUE ELSE connected
            /\ calls' = [calls EXCEPT ![c] =
                            IF out.ok THEN Returned(call, out.value)
                            ELSE Threw([call EXCEPT !.cause = out.error], out.error)]
            /\ UNCHANGED <<url, authHeader>>
    ELSE /\ calls' = [calls EXCEPT ![c] = Returned(call, [rows |-> "rows"])]
         /\ UNCHANGED <<url, authHeader, connected, schemaCache, lastStore>>

\* describeDatabase(database) and describeTable(database, table) up to their
\* first suspension: each level answers from the cache when it can, and the
\* innermost describeAll() goes on to execute() -> fetch() when it cannot
StartDescribe(c, op, args) ==
    LET new == [NewCall(op, [operation |-> "describe_all"])
                   EXCEPT !.args = args,
                          !.ageAtStart = IF lastStore >= 0 THEN now - lastStore ELSE -1]
        tbl == IF op = "describeTable"
               THEN getCached(schemaCache, tableKey(args.database, args.table), now)
               ELSE [hit |-> FALSE, data |-> NoFields, cache |-> schemaCache]
        db == getCached(tbl.cache, dbKey(args.database), now)
        all == getCached(db.cache, "describe_all", now)
        out == IF db.hit
               THEN describeTableFrom(db.data, args.database, args.table, db.cache, now)
               ELSE afterDescribeAll(op, args, all.data, all.cache, now)
        done(o) == IF o.ok THEN Returned(new, o.value)
                   ELSE Threw([new EXCEPT !.cause = o.error], o.error)
    IN /\ IF tbl.hit
          THEN /\ schemaCache' = tbl.cache
               /\ calls' = [calls EXCEPT ![c] = Returned(new, tbl.data)]
          ELSE IF db.hit /\ op = "describeDatabase"
          THEN /\ schemaCache' = db.cache
               /\ calls' = [calls EXCEPT ![c] = Returned(new, db.data)]
          ELSE IF db.hit \/ all.hit
          THEN /\ schemaCache' = out.cache
               /\ calls' = [calls EXCEPT ![c] = done(out)]
          ELSE /\ schemaCache' = all.cache
               /\ calls' = [calls EXCEPT ![c] = Fetch(new, url, authHeader)]
       /\ UNCHANGED <<url, authHeader, connected, now, ticks, lastStore, navVars, relVars, uiVars>>

StartDescribeDatabase(c, database) ==
    /\ Free(c)
    /\ StartDescribe(c, "describeDatabase", [database |-> database, table |-> ""])

StartDescribeTable(c, args) ==
    /\ Free(c)
    /\ StartDescribe(c, "describeTable", args)

\* the request bodies of searchById(params) and systemInformation(attributes)
searchByIdBody_ByHash(params) ==
    [operation |-> "search_by_hash", table |-> params.table, ids |-> params.ids]
      @@ Field(Truthy(params, "database"), "schema",
               IF Has(params, "database") THEN params.database ELSE "")
      @@ Field(Has(params, "getAttributes"), "get_attributes",
               IF Has(params, "getAttributes") THEN params.getAttributes ELSE <<>>)

searchByIdBody(params) ==
    [operation |-> "search_by_id", table |-> params.table, ids |-> params.ids]
      @@ Field(Truthy(params, "database"), "schema",
               IF Has(params, "database") THEN params.database ELSE "")
      @@ Field(Has(params, "getAttributes"), "get_attributes",
               IF Has(params, "getAttributes") THEN params.getAttributes ELSE <<>>)

systemInformationBody(params) ==
    [operation |-> "system_information"]
      @@ Field(Has(params, "attributes"), "attributes",
               IF Has(params, "attributes") THEN params.attributes ELSE <<>>)

\* a method that hands its body straight to execute(), up to the first fetch()
StartExecute_FromCache(c, op, body, params) ==
    LET got == getCached(schemaCache, "describe_all", now)
        new == [NewCall(op, body) EXCEPT !.params = params]
    IN /\ calls' = [calls EXCEPT ![c] =
                       IF got.hit THEN Returned(new, got.data)
                       ELSE Fetch(new, url, authHeader)]
       /\ UNCHANGED <<url, authHeader, connected, schemaCache, now, ticks, lastStore, navVars, relVars, uiVars>>

StartExecute(c, op, body, params) ==
    /\ calls' = [calls EXCEPT ![c] =
                    Fetch([NewCall(op, body) EXCEPT !.params = params], url, authHeader)]
    /\ UNCHANGED <<url, authHeader, connected, schemaCache, now, ticks, lastStore, navVars, relVars, uiVars>>

StartSearchById(c, params) ==
    /\ Free(c)
    /\ StartExecute(c, "searchById", searchByIdBody(params), params)
StartSearchByValue(c, params) ==
    /\ Free(c)
    /\ StartExecute(c, "searchByValue", searchByValueBody(params), params)
StartSystemInformation(c, params) ==
    /\ Free(c)
    /\ StartExecute(c, "systemInformation", systemInformationBody(params), params)

\* the pending fetch() of call c settles with resp: the rest of that loop
\* iteration, and whatever follows it without suspending
Respond(c, resp) ==
    LET call == [calls[c] EXCEPT !.lastResp = resp,
                                 !.log = @ \o logAfterFetch(calls[c].body, resp)]
        out == attemptOutcomeOf[resp]
        next == call.attempt + 1
    IN /\ calls[c].phase = "fetching"
       /\ IF out.act = "return" THEN OpReturned(c, call, resp)
          ELSE IF out.act = "throw"
          THEN OpThrew(c, call, out.error)
          ELSE IF next <= MAX_RETRIES
          THEN /\ calls' = [calls EXCEPT ![c] =
                              [call EXCEPT !.attempt = next,
                                           !.lastError = out.error,
                                           !.phase = "sleeping",
                                           !.sleeps = Append(@, backoff(next)),
                                           !.wakeAt = now + backoff(next)]]
               /\ UNCHANGED <<url, authHeader, connected, schemaCache, lastStore>>
          ELSE OpThrew(c, [call EXCEPT !.lastError = out.error], out.error)
       /\ UNCHANGED <<now, ticks, navVars, relVars, uiVars>>

\* the sleep() of call c is over (its timer fires no earlier than wakeAt):
\* the next attempt's fetch()
Wake(c) ==
    /\ calls[c].phase = "sleeping"
    /\ now >= calls[c].wakeAt
    /\ calls' = [calls EXCEPT ![c] = Fetch([calls[c] EXCEPT !.wakeAt = 0], url, authHeader)]
    /\ UNCHANGED <<url, authHeader, connected, schemaCache, now, ticks, lastStore, navVars, relVars, uiVars>>

\* time passes
TickSteps == {cacheTTL \div 2, cacheTTL \div 2 + 1}
Tick(d) ==
    /\ ticks < MaxTicks
    /\ ticks' = ticks + 1
    /\ now' = now + d
    /\ UNCHANGED <<url, authHeader, connected, schemaCache, calls, lastStore, navVars, relVars, uiVars>>

(***************************************************************************)
(* HarperClient: searchByConditions                                        *)
(***************************************************************************)
OptField(name, values) == {NoFields} \cup { name :> v : v \in values }

ConditionLists ==
    { <<>>,
      << [attribute |-> "name", comparator |-> "equals", value |-> "test"] >>,
      << [attribute |-> "name", comparator |-> "equals", value |-> "test"],
         [attribute |-> "email", comparator |-> "contains", value |-> "@"] >> }

SortSpecs == { [attribute |-> "name", descending |-> TRUE] }

\* SearchByConditionsParams & { hashAttribute?: string }; an optional
\* property is either missing or has one of the listed values
SearchParams ==
    { [table |-> "User", conditions |-> cs] @@ d @@ o @@ srt @@ l @@ f @@ g @@ h :
        cs \in ConditionLists,
        d \in OptField("database", {"", "data"}),
        o \in OptField("operator", {"or"}),
        srt \in OptField("sort", SortSpecs),
        l \in OptField("limit", {0, 25}),
        f \in OptField("offset", {0, 25}),
        g \in OptField("getAttributes", {<<"*">>}),
        h \in OptField("hashAttribute", {"pk"}) }

\* what a search request is answered with
SearchResponses ==
    { Resp(200, "", "valid", NoError),
      Resp(400, "", "none", NoError),
      Resp(500, "", "none", NoError) }

\* searchByConditions(params) up to its first suspension in execute() -> fetch()
StartSearchByConditions(c, params) ==
    /\ Free(c)
    /\ calls' = [calls EXCEPT ![c] =
                    Fetch([NewCall("searchByConditions", searchByConditionsBody(params))
                              EXCEPT !.params = params],
                          url, authHeader)]
    /\ UNCHANGED <<url, authHeader, connected, schemaCache, now, ticks, lastStore, navVars, relVars, uiVars>>

(***************************************************************************)
(* inferRelationships (src/src/relationships.ts)                           *)
(***************************************************************************)
MaxAttrs == 2      \* attributes of one table schema

\* name.endsWith(suffix), name.slice(0, -n)
endsWith(str, suffix) ==
    /\ Len(str) >= Len(suffix)
    /\ SubSeq(str, Len(str) - Len(suffix) + 1, Len(str)) = suffix
sliceEnd(str, n) == SubSeq(str, 1, Len(str) - n)

\* the convention's base name of an attribute name; "" stands for null (both
\* fail the test `if (!baseName) continue`)
baseNameOf(name) ==
    IF endsWith(name, "Id") /\ Len(name) > 2 THEN sliceEnd(name, 2)
    ELSE IF endsWith(name, "_id") /\ Len(name) > 3 THEN sliceEnd(name, 3)
    ELSE ""

\* ---- the names the arguments are built from ----
RelTableNames == {"User", "user", "Order"}

\* attributes by name; "orderId" carries relationship metadata naming "User"
Attr(name) == [attribute |-> name]
RelAttr(name, table) == [attribute |-> name, relationship |-> [table |-> table]]
RelAttributes ==
    { Attr("userId"), Attr("user_id"), Attr("Id"), Attr("_id"),
      RelAttr("orderId", "User") }

\* baseNameOf and toLowerCase over the strings of the arguments, evaluated once
baseNameTable == [n \in { a.attribute : a \in RelAttributes } |-> baseNameOf(n)]
lowerCaseTable ==
    [str \in RelTableNames \cup { baseNameOf(a.attribute) : a \in RelAttributes }
        |-> toLowerCase(str)]

\* RelationshipInfo
ForwardEdge(attribute, targetTable, source) ==
    [attribute |-> attribute, targetTable |-> targetTable,
     direction |-> "forward", source |-> source]
ReverseEdge(attribute, otherName) ==
    [attribute |-> attribute, targetTable |-> otherName,
     direction |-> "reverse", reverseAttribute |-> attribute, source |-> "inferred"]

\* allTables is an object: its entries in insertion order, as records
\* [name, schema] with pairwise different names
tableNames(allTables) == [i \in 1..Len(allTables) |-> allTables[i].name]

\* the Map tableNameLower after the loop over allTableNames: a later name
\* replaces an earlier one with the same lower-case form
RECURSIVE tableNameLower(_)
tableNameLower(names) ==
    IF names = <<>> THEN NoFields
    ELSE LET last == names[Len(names)]
         IN (lowerCaseTable[last] :> last)
                @@ tableNameLower(SubSeq(names, 1, Len(names) - 1))

\* results and seen after one more edge is offered under `key`
offer(acc, key, edge) ==
    IF key \in acc.seen THEN acc
    ELSE [results |-> Append(acc.results, edge), seen |-> acc.seen \cup {key}]

\* whether the attribute carries relationship metadata { table: string }
hasRelationTable(attr) ==
    "relationship" \in DOMAIN attr /\ "table" \in DOMAIN attr.relationship

\* one iteration of the forward loop
forwardStep_NoContinue(acc, attr, tableName, lower) ==
    LET name == attr.attribute
        api == IF hasRelationTable(attr)
               THEN offer(acc, "fwd:" \o name \o ":" \o attr.relationship.table,
                          ForwardEdge(name, attr.relationship.table, "api"))
               ELSE acc
        base == baseNameTable[name]
        key == lowerCaseTable[base]
    IN IF base = "" THEN api
       ELSE IF key \in DOMAIN lower /\ lower[key] # "" /\ lower[key] # tableName
       THEN offer(api, "fwd:" \o name \o ":" \o lower[key],
                  ForwardEdge(name, lower[key], "inferred"))
       ELSE api

forwardStep(acc, attr, tableName, lower) ==
    LET name == attr.attribute
        base == baseNameTable[name]
        key == lowerCaseTable[base]
    IN IF hasRelationTable(attr)
       THEN offer(acc, "fwd:" \o name \o ":" \o attr.relationship.table,
                  ForwardEdge(name, attr.relationship.table, "api"))
       ELSE IF base = "" THEN acc
       ELSE IF key \in DOMAIN lower /\ lower[key] # "" /\ lower[key] # tableName
       THEN offer(acc, "fwd:" \o name \o ":" \o lower[key],
                  ForwardEdge(name, lower[key], "inferred"))
       ELSE acc

RECURSIVE forwardPass(_, _, _, _)
forwardPass(acc, attrs, tableName, lower) ==
    IF attrs = <<>> THEN acc
    ELSE forwardPass(forwardStep(acc, Head(attrs), tableName, lower),
                     Tail(attrs), tableName, lower)

\* one iteration of the inner reverse loop, over an attribute of another table
reverseStep(acc, attr, otherName, tableName) ==
    LET name == attr.attribute
        base == baseNameTable[name]
    IN IF base = "" THEN acc
       ELSE IF lowerCaseTable[base] = lowerCaseTable[tableName]
       THEN offer(acc, "rev:" \o otherName \o ":" \o name, ReverseEdge(name, otherName))
       ELSE acc

RECURSIVE reverseAttrs(_, _, _, _)
reverseAttrs(acc, attrs, otherName, tableName) ==
    IF attrs = <<>> THEN acc
    ELSE reverseAttrs(reverseStep(acc, Head(attrs), otherName, tableName),
                      Tail(attrs), otherName, tableName)

RECURSIVE reversePass(_, _, _)
reversePass(acc, tables, tableName) ==
    IF tables = <<>> THEN acc
    ELSE LET other == Head(tables)
         IN reversePass(IF other.name = tableName THEN acc
                        ELSE reverseAttrs(acc, other.schema.attributes,
                                          other.name, tableName),
                        Tail(tables), tableName)

inferRelationships(tableName, tableSchema, allTables) ==
    LET lower == tableNameLower(tableNames(allTables))
        start == [results |-> <<>>, seen |-> {}]
        fwd == forwardPass(start, tableSchema.attributes, tableName, lower)
    IN reversePass(fwd, allTables, tableName).results

\* ---- the arguments ----
\* attribute lists: up to MaxAttrs attributes with pairwise different names
AttrLists ==
    UNION { { q \in [1..n -> RelAttributes] :
                \A i, j \in 1..n : i # j => q[i].attribute # q[j].attribute } :
            n \in 0..MaxAttrs }
Schemas == { [attributes |-> q] : q \in AttrLists }

\* the names of allTables in insertion order: none, one, or two different names
NameOrders ==
    {<<>>}
    \cup { <<a>> : a \in RelTableNames }
    \cup UNION { { <<a, b>> : b \in RelTableNames \ {a} } : a \in RelTableNames }

\* allTables with these names, in this order, and these schemas
tablesOf(names, schemas) ==
    [i \in 1..Len(names) |-> [name |-> names[i], schema |-> schemas[i]]]

\* the names allTables holds, and the schema it holds under one of them
knownTables(allTables) == { allTables[i].name : i \in 1..Len(allTables) }
schemaOf(allTables, name) ==
    allTables[CHOOSE i \in 1..Len(allTables) : allTables[i].name = name].schema

NoRelInput == [tableName |-> "", tableSchema |-> [attributes |-> <<>>], allTables |-> <<>>]

RelAtRest ==
    /\ relInput = NoRelInput
    /\ relResult = [done |-> FALSE, edges |-> <<>>]

\* inferRelationships(tableName, allTables[tableName], allTables) as the screens
\* call it, or a call with no known table at all
InitRel ==
    /\ relResult = [done |-> FALSE, edges |-> <<>>]
    /\ \/ \E t \in RelTableNames, sc \in Schemas :
             relInput = [tableName |-> t, tableSchema |-> sc, allTables |-> <<>>]
       \/ \E names \in NameOrders \ {<<>>} :
             \E schemas \in [1..Len(names) -> Schemas], i \in 1..Len(names) :
                relInput = [tableName |-> names[i], tableSchema |-> schemas[i],
                            allTables |-> tablesOf(names, schemas)]

InferRelationships ==
    /\ ~relResult.done
    /\ relResult' = [done |-> TRUE,
                     edges |-> inferRelationships(relInput.tableName,
                                                  relInput.tableSchema,
                                                  relInput.allTables)]
    /\ UNCHANGED <<relInput, navVars, clientVars, uiVars>>

(***************************************************************************)
(* DataTable: row and column windowing (src/src/components/data-table.tsx) *)
(***************************************************************************)
MaxRows == 6       \* rows of one page of data
MaxCols == 3       \* columns of the table

COL_GAP == 2
MAX_COL_WIDTH == 30
MIN_COL_WIDTH == 8
ROW_MARKER_WIDTH == 4

Min(a, b) == IF a < b THEN a ELSE b
Max(a, b) == IF a > b THEN a ELSE b

\* the natural width of a column whose widest text (name or cell) is w long
naturalWidth(w) == Max(MIN_COL_WIDTH, Min(w, MAX_COL_WIDTH))
naturalWidths(contentWidths) ==
    [i \in 1..Len(contentWidths) |-> naturalWidth(contentWidths[i])]

\* column indices are the source's: 0 .. n-1 (widths[i + 1] is naturalWidths[i])

\* the loop of lines 89-95, entered at index i with this budget and maxStart
RECURSIVE maxStartLoop(_, _, _, _)
maxStartLoop(widths, i, budget, maxStart) ==
    IF i < 0 THEN maxStart
    ELSE LET w == widths[i + 1]
             needed == IF i < Len(widths) - 1 THEN w + COL_GAP ELSE w
         IN IF budget < needed THEN maxStart
            ELSE maxStartLoop(widths, i - 1, budget - needed, i)

maxStartOf(widths, effectiveWidth) ==
    maxStartLoop(widths, Len(widths) - 1, effectiveWidth - ROW_MARKER_WIDTH,
                 Len(widths) - 1)

\* the loop of lines 102-115 without the clipped first column
RECURSIVE packLoop_NoClip(_, _, _, _, _)
packLoop_NoClip(widths, i, available, visCols, visWidths) ==
    IF i >= Len(widths) THEN [columns |-> visCols, colWidths |-> visWidths]
    ELSE LET w == widths[i + 1]
             needed == IF Len(visCols) > 0 THEN w + COL_GAP ELSE w
         IN IF available < needed
            THEN [columns |-> visCols, colWidths |-> visWidths]
            ELSE packLoop_NoClip(widths, i + 1, available - needed,
                                 Append(visCols, i), Append(visWidths, w))

\* the loop of lines 102-115, entered at index i
RECURSIVE packLoop(_, _, _, _, _)
packLoop(widths, i, available, visCols, visWidths) ==
    IF i >= Len(widths) THEN [columns |-> visCols, colWidths |-> visWidths]
    ELSE LET w == widths[i + 1]
             needed == IF Len(visCols) > 0 THEN w + COL_GAP ELSE w
         IN IF available < needed
            THEN IF Len(visCols) = 0
                 THEN [columns |-> Append(visCols, i),
                       colWidths |-> Append(visWidths, Max(MIN_COL_WIDTH, available))]
                 ELSE [columns |-> visCols, colWidths |-> visWidths]
            ELSE packLoop(widths, i + 1, available - needed,
                          Append(visCols, i), Append(visWidths, w))

\* the clamp of line 97 without its upper end
clampStart_NoMax(colStart, maxStart) == Max(0, colStart)

clampStart(colStart, maxStart) == Max(0, Min(colStart, maxStart))

\* the useMemo of lines 83-123
columnWindow(widths, colStart, effectiveWidth) ==
    IF Len(widths) = 0
    THEN [columns |-> <<>>, colWidths |-> <<>>, hiddenLeft |-> 0, hiddenRight |-> 0]
    ELSE LET maxStart == maxStartOf(widths, effectiveWidth)
             clamped == clampStart(colStart, maxStart)
             vis == packLoop(widths, clamped, effectiveWidth - ROW_MARKER_WIDTH,
                             <<>>, <<>>)
         IN [columns |-> vis.columns,
             colWidths |-> vis.colWidths,
             hiddenLeft |-> clamped,
             hiddenRight |-> Len(widths) - clamped - Len(vis.columns)]

\* the useMemo of lines 128-138 with the window starting one row early
rowWindow_OffByOne(total, selectedRow, maxVisibleRows) ==
    LET windowSize == Min(maxVisibleRows, total)
        start == IF selectedRow >= windowSize THEN selectedRow - windowSize ELSE 0
        clampedStart == Max(0, Min(start, total - windowSize))
    IN [windowStart |-> clampedStart, windowEnd |-> clampedStart + windowSize]

\* the useMemo of lines 128-138
rowWindow(total, selectedRow, maxVisibleRows) ==
    LET windowSize == Min(maxVisibleRows, total)
        start == IF selectedRow >= windowSize THEN selectedRow - windowSize + 1 ELSE 0
        clampedStart == Max(0, Min(start, total - windowSize))
    IN [windowStart |-> clampedStart, windowEnd |-> clampedStart + windowSize]

\* ---- the props of one render ----
Props(rows, selectedRow, maxVisibleRows, contentWidths, colStart, effectiveWidth) ==
    [rows |-> rows, selectedRow |-> selectedRow, maxVisibleRows |-> maxVisibleRows,
     contentWidths |-> contentWidths, colStart |-> colStart,
     effectiveWidth |-> effectiveWidth]

\* the lengths of the widest text of a column: short, medium, over the maximum
ContentWidths == {3, 12, 40}
\* terminal widths: from narrower than one column to wider than every column
EffectiveWidths == {2, 8, 14, 26, 40, 60, 100}
\* a page of 100 rows in a window of 10, at its first, a middle and its last row
RowExamples == { <<100, 10, 0>>, <<100, 10, 55>>, <<100, 10, 99>> }

NoProps == Props(0, 0, 1, <<>>, 0, 0)
NoView == [rendered |-> FALSE, windowStart |-> 0, windowEnd |-> 0,
           columns |-> <<>>, colWidths |-> <<>>, hiddenLeft |-> 0, hiddenRight |-> 0]

\* ---- the table screen as it mounts (src/src/screens/table.tsx) ----
\* the request fetchData sends: lines 95-109
Request(page, offset, limit) == [page |-> page, offset |-> offset, limit |-> limit]

\* customLimit of line 36 while it is undefined, searchResults while it is null
NoLimit == 0
NoResults == 0 - 1

\* the terminal of 24 rows: tablePageSize = max(5, 24 - 12)
defaultPageSize == 12

\* the state after the first render and its effects (lines 31-39, 110-116): the
\* first page is requested, nothing has arrived; only the row counts of rows
\* and searchResults are kept
MountedScreen(tablePageSize) ==
    [overlay |-> "none", selectedRow |-> 0, page |-> 0, customLimit |-> NoLimit,
     tablePageSize |-> tablePageSize, rows |-> NoResults,
     searchResults |-> NoResults, searching |-> FALSE, searchPending |-> FALSE,
     loading |-> TRUE, requests |-> {Request(0, 0, tablePageSize)}]

NewScreen == MountedScreen(defaultPageSize)

TableAtRest ==
    /\ tableProps = NoProps
    /\ tableView = NoView
    /\ tableScreen = NewScreen

\* a table of two fitting columns over every page of rows and every selection
InitRows ==
    /\ tableView = NoView
    /\ tableScreen = NewScreen
    /\ \/ \E rows \in 0..MaxRows, mv \in 1..(MaxRows + 1) :
             \E sel \in 0..Max(rows - 1, 0) :
                tableProps = Props(rows, sel, mv, <<12, 12>>, 0, 100)
       \/ \E e \in RowExamples :
             tableProps = Props(e[1], e[3], e[2], <<12, 12>>, 0, 100)

\* one page of rows over every list of columns, scroll position and width
InitColumns ==
    /\ tableView = NoView
    /\ tableScreen = NewScreen
    /\ \E n \in 0..MaxCols :
          \E cw \in [1..n -> ContentWidths], cs \in (0 - 1)..(MaxCols + 1),
             ew \in EffectiveWidths :
                tableProps = Props(3, 0, 5, cw, cs, ew)

\* DataTable(props): one render
Render ==
    /\ ~tableView.rendered
    /\ tableView' =
          [rendered |-> TRUE]
          @@ rowWindow(tableProps.rows, tableProps.selectedRow,
                       tableProps.maxVisibleRows)
          @@ columnWindow(naturalWidths(tableProps.contentWidths),
                          tableProps.colStart, tableProps.effectiveWidth)
    /\ UNCHANGED <<tableProps, tableScreen, hook, app, connVars, navVars, clientVars, relVars>>

(***************************************************************************)
(* useApi: the async fetch coordinator (src/src/hooks/use-navigation.ts,   *)
(* lines 60-128, the file the screens import as hooks/use-api.js)           *)
(***************************************************************************)
MaxRuns == 3       \* invocations of the wrapped operation in one lifetime
MaxApiClock == 3   \* performance.now() at most, in half milliseconds

\* null, in a state cell that holds a string / a number otherwise
Null == "<null>"
NullTime == 0 - 1
\* undefined, where an optional chain (err?.message) found nothing
NoValue == "<undefined>"

\* ---- what the wrapped operation can reject with or throw ----
\* message: err?.message; str: err?.toString?.()
Thrown(type, message, str) == [type |-> type, message |-> message, str |-> str]
Rejections ==
    { Thrown("Error", "boom", "Error: boom"),        \* new Error('boom')
      Thrown("Error", "", "Error"),                  \* new Error('')
      Thrown("string", NoValue, "string error"),     \* 'string error'
      Thrown("string", NoValue, ""),                 \* ''
      Thrown("undefined", NoValue, NoValue),         \* undefined, null
      Thrown("object", NoValue, "[object Object]"),  \* {}
      Thrown("bare", NoValue, NoValue) }             \* Object.create(null)
Results == {"ok-1", "ok-2"}

\* a || b || c over strings and undefined: the first truthy operand, c if none
FalsyText(s) == s = "" \/ s = NoValue

\* lines 105-106 without the last operand
errorMessage_NoDefault(err) ==
    IF ~FalsyText(err.message) THEN err.message ELSE err.str

\* lines 105-106
errorMessage(err) ==
    IF ~FalsyText(err.message) THEN err.message
    ELSE IF ~FalsyText(err.str) THEN err.str
    ELSE "An unexpected error occurred"

\* performance.now() is kept in half milliseconds; Math.round rounds halves up
round(halves) == (halves + 1) \div 2
ApiTickStep == 3

\* ---- the coordinator ----
ApiFns == {"fetchPage1", "fetchPage2"}
ArgLists == { <<>>, <<"name", "test">> }

NoFailure == Thrown("none", NoValue, NoValue)

\* one call of execute(): the operation and arguments it invoked, when, on whose
\* behalf ("effect": the immediate effect, "execute": the owner, "retry"), what
\* the operation resolved or failed with, the state of the promise execute()
\* returned, and whether the completion reached the state cells
Run(fn, args, start, origin) ==
    [fn |-> fn, args |-> args, start |-> start, origin |-> origin,
     result |-> Null, failure |-> NoFailure,
     promise |-> "pending", applied |-> FALSE]

\* run r with what its operation ended in
ended(r, ok, value) ==
    IF ok THEN [r EXCEPT !.result = value] ELSE [r EXCEPT !.failure = value]

\* useApi(apiFn, immediate) as called by the first render
NewApi(fn, immediate) ==
    [phase |-> "created", apiFn |-> fn, immediate |-> immediate,
     data |-> Null, loading |-> FALSE, error |-> Null, queryTime |-> NullTime,
     lastArgs |-> <<>>, mountedRef |-> TRUE,
     runs |-> <<>>, clock |-> 0]

ApiAtRest == hook = NewApi("fetchPage1", FALSE)

InitApi == \E fn \in ApiFns, immediate \in BOOLEAN : hook = NewApi(fn, immediate)

\* execute(...args) up to its await (lines 90-96)
executeStart(a, args, origin) ==
    [a EXCEPT !.lastArgs = args,
              !.loading = TRUE,
              !.error = Null,
              !.runs = Append(a.runs, Run(a.apiFn, args, a.clock, origin))]

\* execute() after its await with the guards of lines 97, 102 and 109 left out
executeSettle_NoGuard(a, i, ok, value) ==
    LET elapsed == a.clock - a.runs[i].start
        done == [a EXCEPT !.runs[i] = [ended(@, ok, value) EXCEPT
                                          !.promise = "fulfilled", !.applied = TRUE]]
    IN IF ok
       THEN [done EXCEPT !.data = value,
                         !.queryTime = round(elapsed),
                         !.loading = FALSE]
       ELSE [done EXCEPT !.queryTime = round(elapsed),
                         !.error = errorMessage(value),
                         !.loading = FALSE]

\* execute() after its await (lines 97-112): the operation resolved with value
\* (ok) or rejected with / threw value
executeSettle(a, i, ok, value) ==
    LET elapsed == a.clock - a.runs[i].start
        done == [a EXCEPT !.runs[i] = [ended(@, ok, value) EXCEPT
                                          !.promise = "fulfilled",
                                          !.applied = a.mountedRef]]
    IN IF ~a.mountedRef THEN done
       ELSE IF ok
       THEN [done EXCEPT !.data = value,
                         !.queryTime = round(elapsed),
                         !.loading = FALSE]
       ELSE [done EXCEPT !.queryTime = round(elapsed),
                         !.error = errorMessage(value),
                         !.loading = FALSE]

\* retry() passing nothing on
retryArgs_None(a) == <<>>

\* the arguments retry() passes to execute (line 118)
retryArgs(a) == a.lastArgs

\* the effect of lines 121-125 calling execute() whatever the flag
immediateEffect_Always(a) == executeStart(a, <<>>, "effect")

\* the effect of lines 121-125, run after a render that changed its dependencies
immediateEffect(a) ==
    IF a.immediate THEN executeStart(a, <<>>, "effect") ELSE a

CanRun == Len(hook.runs) < MaxRuns

\* the owner mounts: the effects run in order (lines 82-87, then 121-125)
Mount ==
    /\ hook.phase = "created"
    /\ hook' = immediateEffect([hook EXCEPT !.phase = "mounted", !.mountedRef = TRUE])
    /\ UNCHANGED <<tableVars, app, connVars, navVars, clientVars, relVars>>

\* the owner renders again with another operation or flag: execute is rebuilt
\* when apiFn changed (line 114), and the effect runs when execute or immediate
\* changed (line 125)
Rerender(fn, immediate) ==
    /\ hook.phase = "mounted"
    /\ <<fn, immediate>> # <<hook.apiFn, hook.immediate>>
    /\ immediate => CanRun
    /\ hook' = immediateEffect([hook EXCEPT !.apiFn = fn, !.immediate = immediate])
    /\ UNCHANGED <<tableVars, app, connVars, navVars, clientVars, relVars>>

\* the owner calls execute(...args): from a key handler or an effect of its own
Execute(args) ==
    /\ hook.phase = "mounted"
    /\ CanRun
    /\ hook' = executeStart(hook, args, "execute")
    /\ UNCHANGED <<tableVars, app, connVars, navVars, clientVars, relVars>>

\* the owner calls retry() (lines 117-119)
Retry ==
    /\ hook.phase = "mounted"
    /\ CanRun
    /\ hook' = executeStart(hook, retryArgs(hook), "retry")
    /\ UNCHANGED <<tableVars, app, connVars, navVars, clientVars, relVars>>

\* the operation of run i resolves
Resolve(i, value) ==
    /\ i \in 1..Len(hook.runs)
    /\ hook.runs[i].promise = "pending"
    /\ hook' = executeSettle(hook, i, TRUE, value)
    /\ UNCHANGED <<tableVars, app, connVars, navVars, clientVars, relVars>>

\* the operation of run i rejects or throws
Reject(i, err) ==
    /\ i \in 1..Len(hook.runs)
    /\ hook.runs[i].promise = "pending"
    /\ hook' = executeSettle(hook, i, FALSE, err)
    /\ UNCHANGED <<tableVars, app, connVars, navVars, clientVars, relVars>>

\* the owner is torn down: the cleanup of lines 84-86
Unmount ==
    /\ hook.phase = "mounted"
    /\ hook' = [hook EXCEPT !.phase = "unmounted", !.mountedRef = FALSE]
    /\ UNCHANGED <<tableVars, app, connVars, navVars, clientVars, relVars>>

ApiTick ==
    /\ hook.clock + ApiTickStep <= MaxApiClock
    /\ hook' = [hook EXCEPT !.clock = hook.clock + ApiTickStep]
    /\ UNCHANGED <<tableVars, app, connVars, navVars, clientVars, relVars>>

(***************************************************************************)
(* App: global key handling (src/src/index.tsx, lines 113-184)             *)
(***************************************************************************)
MaxKeys == 4          \* keypresses in one run
MaxAppClock == 3000   \* milliseconds of one run

readyDelayMs == 150
quitHintMs == 2000
exitDelayMs == 500
AppTickMs == 500

Timer(kind, due) == [kind |-> kind, due |-> due]
KeyPress(input, at) == [input |-> input, at |-> at]

\* the App component after its first render and effects (lines 113-122)
NewApp ==
    [quitting |-> FALSE, qPending |-> FALSE, ready |-> FALSE, exited |-> FALSE,
     overlayActive |-> FALSE, connectedUrl |-> "",
     timers |-> {Timer("ready", readyDelayMs)},
     clock |-> 0, keys |-> 0, lastKey |-> KeyPress("none", 0)]

AppAtRest == app = NewApp

current == navState.stack[Len(navState.stack)]

\* line 136
hasTextInput == current.screen = "connect"

\* the useInput callback of lines 140-170 without lines 155-158
globalKey_HintKept(a, input) ==
    IF a.quitting \/ ~a.ready THEN [app |-> a, pop |-> FALSE]
    ELSE IF ~hasTextInput /\ input = "q"
    THEN IF a.qPending
         THEN [app |-> [a EXCEPT !.quitting = TRUE,
                                 !.timers = @ \cup {Timer("exit", a.clock + exitDelayMs)}],
               pop |-> FALSE]
         ELSE [app |-> [a EXCEPT !.qPending = TRUE,
                                 !.timers = @ \cup {Timer("hint", a.clock + quitHintMs)}],
               pop |-> FALSE]
    ELSE IF input = "escape" /\ ~a.overlayActive
         THEN IF Len(navState.stack) > 1
              THEN [app |-> a, pop |-> TRUE]
              ELSE [app |-> [a EXCEPT !.quitting = TRUE,
                                      !.timers = @ \cup {Timer("exit", a.clock + exitDelayMs)}],
                    pop |-> FALSE]
         ELSE [app |-> a, pop |-> FALSE]

\* the useInput callback of lines 140-170: the App after the key, and whether it
\* called pop(); input is 'q', "escape" for key.escape, or any other key
globalKey(a, input) ==
    IF a.quitting \/ ~a.ready THEN [app |-> a, pop |-> FALSE]
    ELSE IF ~hasTextInput /\ input = "q"
    THEN IF a.qPending
         THEN [app |-> [a EXCEPT !.quitting = TRUE,
                                 !.timers = @ \cup {Timer("exit", a.clock + exitDelayMs)}],
               pop |-> FALSE]
         ELSE [app |-> [a EXCEPT !.qPending = TRUE,
                                 !.timers = @ \cup {Timer("hint", a.clock + quitHintMs)}],
               pop |-> FALSE]
    ELSE LET cleared == IF a.qPending THEN [a EXCEPT !.qPending = FALSE] ELSE a
         IN IF input = "escape" /\ ~cleared.overlayActive
            THEN IF Len(navState.stack) > 1
                 THEN [app |-> cleared, pop |-> TRUE]
                 ELSE [app |-> [cleared EXCEPT
                                   !.quitting = TRUE,
                                   !.timers = @ \cup {Timer("exit", a.clock + exitDelayMs)}],
                       pop |-> FALSE]
            ELSE [app |-> cleared, pop |-> FALSE]

\* the keypress as the run remembers it
pressed(a, input) ==
    [a EXCEPT !.keys = a.keys + 1, !.lastKey = KeyPress(input, a.clock)]

\* dispatch(action) from a callback of the App
NavStep(action) ==
    /\ prevNav' = navState
    /\ navState' = reducer(navState, action, nextRef)
    /\ lastAction' = action.type
    /\ nextRef' = IF navState'.ref = nextRef THEN nextRef + 1 ELSE nextRef
    /\ UNCHANGED rootEntry

CanPress == ~app.exited /\ app.keys < MaxKeys

PressQ ==
    /\ CanPress
    /\ app' = pressed(globalKey(app, "q").app, "q")
    /\ UNCHANGED <<tableVars, hook, connVars, navVars, clientVars, relVars>>

PressEscape ==
    /\ CanPress
    /\ nextRef <= MaxRefs
    /\ LET after == globalKey(app, "escape")
       IN /\ app' = pressed(after.app, "escape")
          /\ IF after.pop THEN NavStep([type |-> "POP"]) ELSE UNCHANGED navVars
    /\ UNCHANGED <<tableVars, hook, connVars, clientVars, relVars>>

\* any other key; the screen's own handler may open or close an overlay on it
PressOther(overlay) ==
    /\ CanPress
    /\ app' = pressed([globalKey(app, "other").app EXCEPT !.overlayActive = overlay],
                      "other")
    /\ UNCHANGED <<tableVars, hook, connVars, navVars, clientVars, relVars>>

\* the screens a screen's own key handler opens (handleSelectDatabase,
\* handleSelectTable, ...)
NextScreens(screen) ==
    CASE screen = "dashboard" -> {"database", "system"}
      [] screen = "database" -> {"table"}
      [] screen = "table" -> {"record"}
      [] OTHER -> {}

\* Enter on a list: the global handler sees another key, the screen pushes
PressEnter ==
    /\ CanPress
    /\ nextRef <= MaxRefs
    /\ Len(navState.stack) < MaxDepth
    /\ app' = pressed(globalKey(app, "other").app, "other")
    /\ \E s \in NextScreens(current.screen) :
          NavStep([type |-> "PUSH", screen |-> s, params |-> {}])
    /\ UNCHANGED <<tableVars, hook, connVars, clientVars, relVars>>

\* handleConnect(url) of lines 175-184, called by the connect screen when the
\* connection is made
HandleConnect ==
    /\ ~app.exited
    /\ current.screen = "connect"
    /\ nextRef <= MaxRefs
    /\ Len(navState.stack) < MaxDepth
    /\ schemaCache' = NoFields
    /\ lastStore' = 0 - 1
    /\ app' = [app EXCEPT !.connectedUrl = "http://localhost:9925"]
    /\ NavStep([type |-> "PUSH", screen |-> "dashboard",
                params |-> {<<"url", "http://localhost:9925">>}])
    /\ UNCHANGED <<url, authHeader, connected, now, ticks, calls,
                   tableVars, hook, connVars, relVars>>

\* a timer callback runs: lines 120, 148/166 and 151
FireTimer(t) ==
    /\ ~app.exited
    /\ t \in app.timers
    /\ t.due <= app.clock
    /\ app' = CASE t.kind = "ready" -> [app EXCEPT !.timers = @ \ {t}, !.ready = TRUE]
                [] t.kind = "hint" -> [app EXCEPT !.timers = @ \ {t}, !.qPending = FALSE]
                [] OTHER -> [app EXCEPT !.timers = @ \ {t}, !.exited = TRUE]
    /\ UNCHANGED <<tableVars, hook, connVars, navVars, clientVars, relVars>>

\* time passes; a timer that is due runs before the clock moves on
AppTick ==
    /\ ~app.exited
    /\ app.clock + AppTickMs <= MaxAppClock
    /\ \A t \in app.timers : t.due > app.clock
    /\ app' = [app EXCEPT !.clock = app.clock + AppTickMs]
    /\ UNCHANGED <<tableVars, hook, connVars, navVars, clientVars, relVars>>

(***************************************************************************)
(* Recent connections (src/src/screens/connect.tsx, lines 18-47)           *)
(***************************************************************************)
MaxSaves == 2      \* saveConnection calls in one run

recentLimit == 10

SavedConnection(u, username) == [url |-> u, username |-> username]

ConnUrls == {"http://a:9925", "http://b:9925", "http://c:9925", "http://d:9925"}
ConnUsers == {"HDB_ADMIN", "alice", "bob"}

\* the twelve connections in a fixed order
PairOrder ==
    << SavedConnection("http://a:9925", "HDB_ADMIN"), SavedConnection("http://a:9925", "alice"),
       SavedConnection("http://a:9925", "bob"), SavedConnection("http://b:9925", "HDB_ADMIN"),
       SavedConnection("http://b:9925", "alice"), SavedConnection("http://b:9925", "bob"),
       SavedConnection("http://c:9925", "HDB_ADMIN"), SavedConnection("http://c:9925", "alice"),
       SavedConnection("http://c:9925", "bob"), SavedConnection("http://d:9925", "HDB_ADMIN"),
       SavedConnection("http://d:9925", "alice"), SavedConnection("http://d:9925", "bob") >>

Reverse(q) == [i \in 1..Len(q) |-> q[Len(q) + 1 - i]]

\* connections.json: absent, or the JSON of a list
File(present, entries) == [present |-> present, entries |-> entries]
NoFile == File(FALSE, <<>>)

ConnAtRest ==
    /\ connFile = NoFile
    /\ saved = [calls |-> 0, pairs |-> <<>>]

\* the file after earlier runs saved the first k connections, the k-th first
InitConn ==
    \E k \in 0..recentLimit :
        /\ connFile = File(k > 0, SubSeq(PairOrder, 1, k))
        /\ saved = [calls |-> 0, pairs |-> Reverse(SubSeq(PairOrder, 1, k))]

\* loadConnections(): the parsed file, [] when it cannot be read
loadConnections(file) == IF file.present THEN file.entries ELSE <<>>

slice(q, n) == SubSeq(q, 1, IF Len(q) < n THEN Len(q) ELSE n)

\* lines 36-41 without the filter of lines 37-39
trimmedList_NoFilter(file, u, username) ==
    slice(<<SavedConnection(u, username)>> \o loadConnections(file), recentLimit)

\* lines 36-41: the list saveConnection writes
trimmedList(file, u, username) ==
    LET existing == loadConnections(file)
        filtered == SelectSeq(existing,
                              LAMBDA c : ~(c.url = u /\ c.username = username))
    IN slice(<<SavedConnection(u, username)>> \o filtered, recentLimit)

\* saveConnection(url, username); mkdir or writeFile may fail, which the catch
\* of lines 44-46 swallows
SaveConnection(u, username, written) ==
    /\ saved.calls < MaxSaves
    /\ connFile' = IF written THEN File(TRUE, trimmedList(connFile, u, username))
                   ELSE connFile
    /\ saved' = [calls |-> saved.calls + 1,
                 pairs |-> IF written
                           THEN Append(saved.pairs, SavedConnection(u, username))
                           ELSE saved.pairs]
    /\ UNCHANGED <<tableVars, hook, app, navVars, clientVars, relVars>>

(***************************************************************************)
(* TableScreen: keys, overlays and page requests                           *)
(* (src/src/screens/table.tsx)                                             *)
(***************************************************************************)
MaxPage == 2          \* the last page a run turns to
MaxLoad == 2          \* the most rows a request returns

\* the limits the query builder hands over (query-builder.tsx, lines 130-131):
\* parseInt of the limit field, which starts as the terminal page size
QueryLimits(s) == {0, 2, s.tablePageSize}

\* line 37
limit(s) == IF s.customLimit # NoLimit THEN s.customLimit ELSE s.tablePageSize

\* lines 135-138: how many rows displayData has
displayLength(s) ==
    IF s.searchResults # NoResults /\ s.searching THEN s.searchResults
    ELSE IF s.rows = NoResults THEN 0 ELSE s.rows

\* fetchData (lines 95-109) as the coordinator runs it
fetchData(s) == Request(s.page, s.page * s.tablePageSize, limit(s))

\* executeQuery(): one more request in flight, loading set
executeQuery(s) ==
    [s EXCEPT !.requests = @ \cup {fetchData(s)}, !.loading = TRUE]

\* the effects after a render in which page, conditions or sort changed: the
\* selection is reset (lines 151-154) and the coordinator runs the new
\* fetchData (lines 110-116; with a sort set, lines 427-431 run it once more,
\* the same request)
pageEffects(s) == executeQuery([s EXCEPT !.selectedRow = 0])

\* the key of the main handler that opens an overlay (lines 240-267)
overlayOf(input) ==
    CASE input = "f" -> "query"
      [] input = "/" -> "search"
      [] input = "c" -> "columns"
      [] input = "s" -> "sort"
      [] OTHER -> "schema-info"

\* the main handler (lines 216-284) with the effects of the render it causes
mainKey(s, input) ==
    CASE input = "j" ->
            [s EXCEPT !.selectedRow = Min(s.selectedRow + 1, displayLength(s) - 1)]
      [] input = "k" -> [s EXCEPT !.selectedRow = Max(s.selectedRow - 1, 0)]
      [] input = "n" -> pageEffects([s EXCEPT !.page = s.page + 1])
      [] input = "p" ->
            IF s.page > 0 THEN pageEffects([s EXCEPT !.page = s.page - 1]) ELSE s
      [] input \in {"f", "/", "c", "s", "i"} -> [s EXCEPT !.overlay = overlayOf(input)]
      [] input = "r" -> executeQuery([s EXCEPT !.searching = FALSE])
      [] OTHER -> s

\* the handler of the open overlay (lines 287-422, 551-565) with the effects of
\* the render it causes; lim is what the query builder hands over.  Enter in the
\* search overlay is Enter on a value typed; 'a' in the sort overlay is the
\* direction chosen
overlayKey(s, input, lim) ==
    CASE input = "escape" -> [s EXCEPT !.overlay = "none"]
      [] input = "return" /\ s.overlay = "search" ->
            [s EXCEPT !.searching = TRUE, !.searchPending = TRUE, !.overlay = "none"]
      [] input = "a" /\ s.overlay = "sort" ->
            pageEffects([s EXCEPT !.page = 0, !.overlay = "none"])
      [] input = "return" /\ s.overlay = "query" ->
            \* line 563 runs the fetchData of the render before the change
            pageEffects([executeQuery(s) EXCEPT
                            !.customLimit = IF lim # 0 THEN lim ELSE s.customLimit,
                            !.page = 0, !.searching = FALSE, !.overlay = "none"])
      [] OTHER -> s

MainKeys == {"j", "k", "n", "p", "f", "/", "c", "s", "i", "r"}
OverlayKeys == {"escape", "return", "a"}

TablePageSizes == {5, defaultPageSize}

InitTable == \E tps \in TablePageSizes : tableScreen = MountedScreen(tps)

\* a key while no overlay is open; the handler is active once the data is in
\* (line 283)
MainKey(input) ==
    /\ tableScreen.overlay = "none"
    /\ ~tableScreen.loading
    /\ input = "n" => tableScreen.page < MaxPage
    /\ Cardinality(tableScreen.requests) < MaxCalls
    /\ tableScreen' = mainKey(tableScreen, input)
    /\ UNCHANGED <<tableProps, tableView, hook, app, connVars, navVars, clientVars, relVars>>

\* a key while an overlay is open
OverlayKey(input, lim) ==
    /\ tableScreen.overlay # "none"
    /\ Cardinality(tableScreen.requests) < MaxCalls
    /\ tableScreen' = overlayKey(tableScreen, input, lim)
    /\ UNCHANGED <<tableProps, tableView, hook, app, connVars, navVars, clientVars, relVars>>

\* a page request completes with n rows (use-navigation.ts, lines 97-101)
Loaded(r, n) ==
    /\ r \in tableScreen.requests
    /\ n <= r.limit
    /\ tableScreen' = [tableScreen EXCEPT !.requests = @ \ {r}, !.rows = n,
                                         !.loading = FALSE]
    /\ UNCHANGED <<tableProps, tableView, hook, app, connVars, navVars, clientVars, relVars>>

\* the quick search completes with n rows
SearchLoaded(n) ==
    /\ tableScreen.searchPending
    /\ tableScreen' = [tableScreen EXCEPT !.searchPending = FALSE, !.searchResults = n]
    /\ UNCHANGED <<tableProps, tableView, hook, app, connVars, navVars, clientVars, relVars>>

\* ---- the table screen under the App: one keypress, two handlers ----
\* the listeners of the screen and of the App both receive every keypress, in
\* the order they were last registered; setOverlay (lines 40-47) writes the
\* App's overlayActive ref at once
OpenOverlay(input) ==
    /\ CanPress
    /\ current.screen = "table"
    /\ tableScreen.overlay = "none"
    /\ ~tableScreen.loading
    /\ tableScreen' = mainKey(tableScreen, input)
    /\ app' = pressed([globalKey(app, "other").app EXCEPT !.overlayActive = TRUE],
                      "other")
    /\ UNCHANGED <<tableProps, tableView, hook, connVars, navVars, clientVars, relVars>>

\* Escape on the table screen; the screen unmounts when the App pops it
TableEscape(screenFirst) ==
    /\ CanPress
    /\ current.screen = "table"
    /\ nextRef <= MaxRefs
    /\ LET closed == IF tableScreen.overlay # "none"
                     THEN overlayKey(tableScreen, "escape", 0)
                     ELSE tableScreen
           seen == IF screenFirst /\ tableScreen.overlay # "none"
                   THEN [app EXCEPT !.overlayActive = FALSE]
                   ELSE app
           after == globalKey(seen, "escape")
       IN /\ app' = pressed([after.app EXCEPT
                                !.overlayActive =
                                    IF tableScreen.overlay # "none" THEN FALSE ELSE @],
                            "escape")
          /\ IF after.pop
             THEN NavStep([type |-> "POP"]) /\ tableScreen' = NewScreen
             ELSE UNCHANGED navVars /\ tableScreen' = closed
    /\ UNCHANGED <<tableProps, tableView, hook, connVars, clientVars, relVars>>

(***************************************************************************)
(* Specifications                                                          *)
(***************************************************************************)
NavAtRest ==
    /\ rootEntry = [screen |-> "connect", params |-> {}]
    /\ navState = [ref |-> 0, stack |-> <<rootEntry>>]
    /\ prevNav = navState
    /\ lastAction = "NONE"
    /\ nextRef = 1

\* the client as constructed, the browser on its connect screen
UiAtRest == TableAtRest /\ ApiAtRest /\ AppAtRest /\ ConnAtRest

Init == NavAtRest /\ InitClient /\ RelAtRest /\ UiAtRest

\* the navigation reducer alone, from any initial screen
NextNav == Push \/ Pop \/ Reset
InitAnyScreen == InitNav /\ InitClient /\ RelAtRest /\ UiAtRest
SpecNav == InitAnyScreen /\ [][NextNav]_vars

\* one client call at a time, every kind of response
NextClient ==
    \/ \E a \in ConnectArgs : StartConnect(1, a)
    \/ StartDescribeAll(1)
    \/ ClearCache
    \/ \E r \in Responses : Respond(1, r)
    \/ Wake(1)
    \/ \E d \in TickSteps : Tick(d)
SpecClient == Init /\ [][NextClient]_vars

\* searchByConditions alone: one call per run, over every shape of its parameters
SearchOnce ==
    /\ calls[1].phase = "idle"
    /\ \E p \in SearchParams : StartSearchByConditions(1, p)
NextSearch ==
    \/ SearchOnce
    \/ \E r \in SearchResponses : Respond(1, r)
    \/ Wake(1)
    \/ \E d \in TickSteps : Tick(d)
SpecSearch == Init /\ [][NextSearch]_vars

\* the describe methods, one call at a time, over a cache that fills, expires
\* and is cleared
QueryResponses == CoreResponses \cup { Resp(500, "", "none", NoError) }
NextDescribe ==
    \/ StartDescribeAll(1)
    \/ \E d \in DatabaseArgs : StartDescribeDatabase(1, d)
    \/ \E a \in DescribeArgs : StartDescribeTable(1, a)
    \/ ClearCache
    \/ \E r \in QueryResponses : Respond(1, r)
    \/ Wake(1)
    \/ \E d \in TickSteps : Tick(d)
SpecDescribe == Init /\ [][NextDescribe]_vars

\* every public method of the client that sends a request, one call at a time
SearchByIdParams ==
    { [table |-> "User", ids |-> <<1>>] @@ d : d \in OptField("database", {"data"}) }
SearchByValueParams ==
    { [table |-> "User", attribute |-> "name", value |-> "test"] @@ l :
        l \in OptField("limit", {25}) }
QueryConditionsParams ==
    { p \in SearchParams :
        /\ DOMAIN p \subseteq {"table", "conditions", "hashAttribute"}
        /\ Len(p.conditions) <= 1 }
SystemInformationParams == OptField("attributes", {<<"cpu">>})
NextQueries ==
    \/ StartDescribeAll(1)
    \/ StartDescribeTable(1, [database |-> "data", table |-> "User"])
    \/ \E p \in SearchByIdParams : StartSearchById(1, p)
    \/ \E p \in SearchByValueParams : StartSearchByValue(1, p)
    \/ \E p \in QueryConditionsParams : StartSearchByConditions(1, p)
    \/ \E p \in SystemInformationParams : StartSystemInformation(1, p)
    \/ ClearCache
    \/ \E r \in QueryResponses : Respond(1, r)
    \/ Wake(1)
    \/ Tick(cacheTTL \div 2 + 1)
SpecQueries == Init /\ [][NextQueries]_vars

\* inferRelationships alone, over every argument
NextRel == InferRelationships
InitInfer == NavAtRest /\ InitClient /\ InitRel /\ UiAtRest
SpecRel == InitInfer /\ [][NextRel]_vars

\* client calls overlapping, against a server that answers, refuses the
\* credentials, or cannot be reached
Next ==
    \/ \E c \in CallIds, a \in ConnectArgs : StartConnect(c, a)
    \/ \E c \in CallIds : StartDescribeAll(c)
    \/ ClearCache
    \/ \E c \in CallIds, r \in CoreResponses : Respond(c, r)
    \/ \E c \in CallIds : Wake(c)
    \/ \E d \in TickSteps : Tick(d)
Spec == Init /\ [][Next]_vars

\* DataTable rendered once, over every page of rows and every selected row
NextRows == Render
InitRowWindow ==
    NavAtRest /\ InitClient /\ RelAtRest /\ InitRows /\ ApiAtRest /\ AppAtRest /\ ConnAtRest
SpecRows == InitRowWindow /\ [][NextRows]_vars

\* DataTable rendered once, over every list of columns, scroll position and width
NextColumns == Render
InitColumnWindow ==
    NavAtRest /\ InitClient /\ RelAtRest /\ InitColumns /\ ApiAtRest /\ AppAtRest /\ ConnAtRest
SpecColumns == InitColumnWindow /\ [][NextColumns]_vars

\* one coordinator over one operation, from its creation to after its owner's
\* teardown, its calls overlapping, resolving and failing
Boom == Thrown("Error", "boom", "Error: boom")
NextApi ==
    \/ Mount
    \/ \E args \in ArgLists : Execute(args)
    \/ Retry
    \/ \E i \in 1..MaxRuns, value \in Results : Resolve(i, value)
    \/ \E i \in 1..MaxRuns : Reject(i, Boom)
    \/ Unmount
    \/ ApiTick
InitCoordinator ==
    NavAtRest /\ InitClient /\ RelAtRest /\ TableAtRest /\ InitApi /\ AppAtRest /\ ConnAtRest
SpecApi == InitCoordinator /\ [][NextApi]_vars

\* one coordinator whose operation fails in every way
NextApiErrors ==
    \/ Mount
    \/ Execute(<<>>)
    \/ Retry
    \/ \E i \in 1..MaxRuns : Resolve(i, "ok-1")
    \/ \E i \in 1..MaxRuns, err \in Rejections : Reject(i, err)
    \/ Unmount
SpecApiErrors == InitCoordinator /\ [][NextApiErrors]_vars

\* one coordinator whose owner renders again with another operation or flag
NextApiRender ==
    \/ Mount
    \/ \E fn \in ApiFns, immediate \in BOOLEAN : Rerender(fn, immediate)
    \/ \E args \in ArgLists : Execute(args)
    \/ Retry
    \/ \E i \in 1..MaxRuns : Resolve(i, "ok-1")
    \/ \E i \in 1..MaxRuns : Reject(i, Boom)
    \/ Unmount
SpecApiRender == InitCoordinator /\ [][NextApiRender]_vars

\* the App from its start on the connect screen or, with credentials on the
\* command line, on the dashboard
NextApp ==
    \/ PressQ
    \/ PressEscape
    \/ \E overlay \in BOOLEAN : PressOther(overlay)
    \/ PressEnter
    \/ HandleConnect
    \/ \E t \in app.timers : FireTimer(t)
    \/ AppTick
InitAppScreen ==
    /\ rootEntry \in [screen : {"connect", "dashboard"}, params : {{}}]
    /\ navState = [ref |-> 0, stack |-> <<rootEntry>>]
    /\ prevNav = navState
    /\ lastAction = "NONE"
    /\ nextRef = 1
    /\ InitClient /\ RelAtRest /\ TableAtRest /\ ApiAtRest /\ AppAtRest /\ ConnAtRest
SpecApp == InitAppScreen /\ [][NextApp]_vars

\* saveConnection after each connection made, over a file earlier runs left
NextConn == \E u \in ConnUrls, username \in ConnUsers, written \in BOOLEAN :
                SaveConnection(u, username, written)
InitConnections ==
    NavAtRest /\ InitClient /\ RelAtRest /\ TableAtRest /\ ApiAtRest /\ AppAtRest /\ InitConn
SpecConn == InitConnections /\ [][NextConn]_vars

\* the table screen alone: keys, overlays, page requests and their results
NextTable ==
    \/ \E input \in MainKeys : MainKey(input)
    \/ \E input \in OverlayKeys, lim \in QueryLimits(tableScreen) : OverlayKey(input, lim)
    \/ \E r \in tableScreen.requests, n \in 0..MaxLoad : Loaded(r, n)
    \/ \E n \in 0..MaxLoad : SearchLoaded(n)
InitTableScreen ==
    /\ NavAtRest /\ InitClient /\ RelAtRest
    /\ tableProps = NoProps /\ tableView = NoView /\ InitTable
    /\ ApiAtRest /\ AppAtRest /\ ConnAtRest
SpecTable == InitTableScreen /\ [][NextTable]_vars

\* the App started on the dashboard, the table screen two screens further, both
\* receiving the keys
EscapeElsewhere ==
    /\ current.screen # "table"
    /\ PressEscape
EnterElsewhere ==
    /\ current.screen # "table"
    /\ PressEnter
TableLoaded ==
    /\ current.screen = "table"
    /\ \E r \in tableScreen.requests : Loaded(r, 1)
NextOverlay ==
    \/ PressQ
    \/ EscapeElsewhere
    \/ EnterElsewhere
    \/ TableLoaded
    \/ \E input \in {"f", "/", "c", "s", "i"} : OpenOverlay(input)
    \/ \E screenFirst \in BOOLEAN : TableEscape(screenFirst)
    \/ \E t \in app.timers : FireTimer(t)
    \/ AppTick
InitOnDashboard ==
    /\ rootEntry = [screen |-> "dashboard", params |-> {}]
    /\ navState = [ref |-> 0, stack |-> <<rootEntry>>]
    /\ prevNav = navState
    /\ lastAction = "NONE"
    /\ nextRef = 1
    /\ InitClient /\ RelAtRest /\ UiAtRest
SpecOverlay == InitOnDashboard /\ [][NextOverlay]_vars

(***************************************************************************)
(* Claims about the navigation reducer (SpecNav)                           *)
(***************************************************************************)

\* C1: after any sequence of PUSH, POP and RESET from a single-frame initial
\* state, the stack is never empty and its first entry is still the root frame
\* (same screen and params).
C1_RootKept ==
    /\ Len(navState.stack) >= 1
    /\ navState.stack[1] = rootEntry

\* a RESET has just collapsed a stack of three frames whose last differs from the root
C1_Witness ==
    /\ lastAction = "RESET"
    /\ Len(prevNav.stack) = 3
    /\ prevNav.stack[3] # rootEntry
    /\ navState.stack = <<rootEntry>>

\* C2: POP on a state with more than one frame returns the old stack without
\* its last frame (length reduced by exactly 1, order kept); POP on a state with
\* exactly one frame returns the identical state instance.
C2_Pop ==
    lastAction = "POP" =>
        IF Len(prevNav.stack) > 1
        THEN /\ Len(navState.stack) = Len(prevNav.stack) - 1
             /\ \A i \in 1..Len(navState.stack) : navState.stack[i] = prevNav.stack[i]
        ELSE /\ navState.ref = prevNav.ref
             /\ navState = prevNav

\* a POP has just taken the third of three pairwise different frames
C2_Witness ==
    /\ lastAction = "POP"
    /\ Len(prevNav.stack) = 3
    /\ prevNav.stack[1] # prevNav.stack[2]
    /\ prevNav.stack[2] # prevNav.stack[3]
    /\ navState.stack = <<prevNav.stack[1], prevNav.stack[2]>>

(***************************************************************************)
(* Claims about the cache and the retry loop (SpecClient)                  *)
(***************************************************************************)

\* C3: describeAll() called within the 60,000 ms TTL window of the last stored
\* response issues no network call of its own (so two calls cost exactly one);
\* called after clearCache(), or after the TTL has elapsed, it issues a new
\* network call, exactly one when the response is successful.
C3_CacheWindow ==
    \A c \in CallIds :
        calls[c].op = "describeAll" =>
            IF calls[c].ageAtStart >= 0 /\ calls[c].ageAtStart <= 60000
            THEN /\ calls[c].phase = "done"
                 /\ calls[c].result = "ok"
                 /\ calls[c].fetches = 0
            ELSE /\ calls[c].fetches >= 1
                 /\ (calls[c].result = "ok" /\ calls[c].attempt = 0
                        => calls[c].fetches = 1)

\* a describeAll() that started 60,001 ms after the last response was stored
\* made one network call and returned
C3_Witness ==
    \E c \in CallIds :
        /\ calls[c].op = "describeAll"
        /\ calls[c].ageAtStart = 60001
        /\ calls[c].result = "ok"
        /\ calls[c].fetches = 1

\* C4: every call through the retry loop makes at most 4 fetch attempts; a
\* further attempt is made only after a network-class failure or an HTTP 5xx;
\* four consecutive retriable failures end the call by throwing the error of the
\* last attempt.
C4_RetryOnlyTransient ==
    LET Transient(resp) ==
            \/ resp.thrown \in NetworkFailures
            \/ resp.status >= 500 /\ resp.status <= 599
    IN \A c \in CallIds :
        /\ calls[c].fetches <= 4
        /\ calls[c].phase = "sleeping" => Transient(calls[c].lastResp)
        /\ (calls[c].phase = "done" /\ calls[c].fetches = 4 /\ calls[c].result = "error"
              /\ Transient(calls[c].lastResp))
                => calls[c].cause = calls[c].lastError

\* C5: an HTTP 4xx response is never retried, whatever its status text or body:
\* the call fails right after that attempt with the response's error message.
C5_No4xxRetry ==
    \A c \in CallIds :
        (calls[c].lastResp.status >= 400 /\ calls[c].lastResp.status <= 499) =>
            /\ calls[c].phase = "done"
            /\ calls[c].result = "error"
            /\ calls[c].cause = Err("Error", ApiErrorMessage(calls[c].lastResp))

\* C6: no sleep precedes the first attempt, the sleep before retry k is
\* 500 * 2^(k-1) ms (500, 1000, 2000 in that order), and no sleep follows the
\* final failed attempt.
C6_Backoff ==
    \A c \in CallIds :
        LET n == Len(calls[c].sleeps)
        IN /\ n <= 3
           /\ calls[c].sleeps = SubSeq(<<500, 1000, 2000>>, 1, n)
           /\ calls[c].phase = "sleeping" => n = calls[c].fetches
           /\ calls[c].phase = "fetching" => n = calls[c].fetches - 1
           /\ (calls[c].phase = "done" /\ calls[c].fetches > 0) => n = calls[c].fetches - 1
           /\ calls[c].fetches = 0 => n = 0

\* a call has failed after four attempts, having slept 500, 1000, 2000 ms
C6_Witness ==
    \E c \in CallIds :
        /\ calls[c].phase = "done"
        /\ calls[c].result = "error"
        /\ calls[c].fetches = 4
        /\ calls[c].sleeps = <<500, 1000, 2000>>

\* C8: connect() rethrows 'Authentication failed' when the failure is an HTTP
\* 401 or carries an 'unauthorized' body, 'Cannot reach instance' for every
\* network-class failure, and 'Failed to connect' with the original text otherwise.
C8_Classified ==
    \A c \in CallIds :
        (calls[c].op = "connect" /\ calls[c].phase = "done" /\ calls[c].result = "error") =>
            LET resp == calls[c].lastResp
                msg == calls[c].error.message
            IN IF resp.status = 401 \/ includes(toLowerCase(resp.text), "unauthorized")
               THEN startsWith(msg, "Authentication failed")
               ELSE IF resp.thrown \in NetworkFailures
               THEN startsWith(msg, "Cannot reach Harper instance")
               ELSE msg = "Failed to connect to Harper: " \o calls[c].cause.message

(***************************************************************************)
(* Claims about overlapping connect() calls (Spec)                         *)
(***************************************************************************)

\* C7: after connect() fails for any reason the client is back in the
\* pre-connect state (isConnected() false, URL and auth header empty), and
\* isConnected() becomes true only by a connect() whose probe succeeded.
C7_FailedConnectResets ==
    [][ /\ \A c \in CallIds :
              (calls[c].op = "connect" /\ calls[c].phase # "done"
                 /\ calls'[c].phase = "done" /\ calls'[c].result = "error")
                => (~connected' /\ url' = "" /\ authHeader' = "")
        /\ (connected' /\ ~connected) =>
              \E c \in CallIds :
                  /\ calls[c].op = "connect" /\ calls[c].phase = "fetching"
                  /\ calls'[c].phase = "done" /\ calls'[c].result = "ok" ]_vars

(***************************************************************************)
(* Claims about searchByConditions (SpecSearch)                            *)
(***************************************************************************)
SearchCalls == { c \in CallIds : calls[c].op = "searchByConditions" /\ calls[c].fetches > 0 }

\* C9: with zero conditions searchByConditions sends operation =
\* search_by_value, search_value = "*", no conditions field, and search_attribute
\* = hashAttribute when given, else the sort attribute when a sort is given, else
\* "id"; with at least one condition it sends operation = search_by_conditions
\* carrying those conditions.
C9_Fallback ==
    \A c \in SearchCalls :
        LET p == calls[c].params
            b == calls[c].sent
        IN IF Len(p.conditions) = 0
           THEN /\ b.operation = "search_by_value"
                /\ b.search_value = "*"
                /\ "conditions" \notin DOMAIN b
                /\ b.search_attribute =
                      (IF "hashAttribute" \in DOMAIN p THEN p.hashAttribute
                       ELSE IF "sort" \in DOMAIN p THEN p.sort.attribute
                       ELSE "id")
           ELSE /\ b.operation = "search_by_conditions"
                /\ b.conditions = p.conditions

\* a fallback request, sent a second time after a 500, whose search attribute
\* is the sort attribute because no hashAttribute was given
C9_Witness ==
    \E c \in SearchCalls :
        /\ calls[c].params.conditions = <<>>
        /\ "hashAttribute" \notin DOMAIN calls[c].params
        /\ "sort" \in DOMAIN calls[c].params
        /\ calls[c].sent.operation = "search_by_value"
        /\ calls[c].sent.search_attribute = "name"
        /\ calls[c].fetches = 2

\* C10 as stated: every search_by_value request issued by the empty-conditions
\* fallback carries both a limit field and an offset field.
C10_LimitOffsetMandatory ==
    \A c \in SearchCalls :
        calls[c].params.conditions = <<>> =>
            /\ "limit" \in DOMAIN calls[c].sent
            /\ "offset" \in DOMAIN calls[c].sent

\* C10 as amended: the fallback passes limit and offset through: its request
\* carries a limit (offset) field exactly when the caller gave a limit (offset),
\* with the caller's value.
C10_LimitOffsetPassedThrough ==
    \A c \in SearchCalls :
        calls[c].params.conditions = <<>> =>
            \A f \in {"limit", "offset"} :
                /\ f \in DOMAIN calls[c].sent <=> f \in DOMAIN calls[c].params
                /\ f \in DOMAIN calls[c].params => calls[c].sent[f] = calls[c].params[f]

\* a fallback request carrying the page the table screen asks for
C10_Witness ==
    \E c \in SearchCalls :
        /\ calls[c].params.conditions = <<>>
        /\ calls[c].sent.operation = "search_by_value"
        /\ "limit" \in DOMAIN calls[c].sent /\ calls[c].sent.limit = 25
        /\ "offset" \in DOMAIN calls[c].sent /\ calls[c].sent.offset = 0

\* C40: whenever searchByConditions is called with a sort spec, the request it
\* sends carries that sort, whether or not the condition list is empty.
C40_SortCarried ==
    \A c \in SearchCalls :
        Has(calls[c].params, "sort") =>
            /\ Has(calls[c].sent, "sort")
            /\ calls[c].sent.sort = calls[c].params.sort

(***************************************************************************)
(* Claims about the public methods (SpecQueries, SpecDescribe, Spec)       *)
(***************************************************************************)
SearchOps == {"searchById", "searchByValue", "searchByConditions"}

\* C11: searchById, searchByValue and searchByConditions are never served from
\* the cache: every call issues at least one network request whatever the cache
\* holds, and no step of such a call adds, changes or removes a cache entry.
C11_SearchNeverCached ==
    [][ \A c \in CallIds :
          (calls'[c] # calls[c] /\ calls'[c].op \in SearchOps) =>
              /\ calls'[c].fetches >= 1
              /\ schemaCache' = schemaCache ]_vars

\* a searchByValue call has returned its rows while the cache held the
\* discovery result and a table schema, after one retry
C11_Witness ==
    \E c \in CallIds :
        /\ calls[c].op = "searchByValue"
        /\ calls[c].phase = "done" /\ calls[c].result = "ok"
        /\ calls[c].fetches = 2
        /\ DOMAIN schemaCache = {"describe_all", "describe_db:data", "describe_table:data.User"}

\* the names of DatabaseArgs and TableArgs the discovery result does not have
AbsentDatabases == { d \in DatabaseArgs : d \notin DOMAIN Discovery }
AbsentTables ==
    { a \in DescribeArgs :
        \/ a.database \notin DOMAIN Discovery
        \/ a.table \notin DOMAIN Discovery[a.database].props }
NotFoundMessages ==
    { "Database \"" \o d \o "\" not found" : d \in AbsentDatabases }
    \cup { "Table \"" \o a.table \o "\" not found in database \"" \o a.database \o "\"" :
             a \in AbsentTables }
AbsentKeys ==
    { dbKey(d) : d \in AbsentDatabases }
    \cup { tableKey(a.database, a.table) : a \in AbsentTables }

\* C12: describeDatabase(name) for a database absent from the discovery result,
\* and describeTable(db, table) for an absent table, fail with a 'not found'
\* error as soon as the discovery result is at hand: without a network call when
\* it is cached and valid, without a retry after it arrived, and nothing is ever
\* stored under the describe_db / describe_table key of the absent name.
C12_NotFound ==
    /\ DOMAIN schemaCache \cap AbsentKeys = {}
    /\ \A c \in CallIds :
          LET call == calls[c]
              absent == \/ call.op = "describeDatabase" /\ call.args.database \in AbsentDatabases
                        \/ call.op = "describeTable" /\ call.args \in AbsentTables
              gotAll == call.lastResp.status = 200 /\ call.lastResp.payload = "valid"
          IN absent =>
                /\ (call.ageAtStart >= 0 /\ call.ageAtStart <= cacheTTL)
                      => (call.phase = "done" /\ call.fetches = 0)
                /\ (call.fetches = 0 \/ gotAll) =>
                      /\ call.phase = "done"
                      /\ call.result = "error"
                      /\ call.error.message \in NotFoundMessages

\* C13: a describeAll() that starts while the cache has no valid describe_all
\* entry and another describeAll() is still pending issues its own network call
\* and leaves the other call alone; each pending call resolves with the result
\* of its own response.
C13_NoDeduplication ==
    [][ \A c \in CallIds :
          /\ ( /\ Free(c) /\ calls'[c] # calls[c] /\ calls'[c].op = "describeAll"
               /\ ~getCached(schemaCache, "describe_all", now).hit
               /\ \E d \in CallIds \ {c} : calls[d].op = "describeAll" /\ ~Free(d) )
                => /\ calls'[c].phase = "fetching"
                   /\ calls'[c].fetches = 1
                   /\ \A d \in CallIds \ {c} : calls'[d] = calls[d]
          /\ ( /\ calls[c].op = "describeAll" /\ calls[c].phase = "fetching"
               /\ calls'[c].fetches = calls[c].fetches
               /\ calls'[c].lastResp.status = 200 /\ calls'[c] # calls[c] )
                => /\ calls'[c].phase = "done"
                   /\ calls'[c].result = "ok"
                   /\ calls'[c].value = DescribeAllValue(calls[c].reqUrl) ]_vars

\* two describeAll() calls are pending together, each with one network call of
\* its own in flight
C13_Witness ==
    \A c \in {1, 2} :
        /\ calls[c].op = "describeAll"
        /\ calls[c].phase = "fetching"
        /\ calls[c].fetches = 1

\* C14: every fetch attempt of the retry loop, once it has ended (in a 2xx, a
\* non-2xx or a thrown failure), has produced a log record carrying the
\* operation name, the elapsed time and the outcome of the attempt.
C14_AttemptLogged ==
    \A c \in CallIds :
        (calls[c].fetches > 0 /\ calls[c].phase # "fetching") =>
            \E i \in 1..Len(calls[c].log) :
                /\ calls[c].log[i].op = opName(calls[c].body)
                /\ calls[c].log[i].elapsed
                /\ calls[c].log[i].outcome \in {"OK", "failed"}

ReadOperations ==
    {"describe_all", "search_by_id", "search_by_value", "search_by_conditions",
     "system_information"}

\* C15: every request the client has sent is a POST whose operation is one of
\* describe_all, search_by_id, search_by_value, search_by_conditions,
\* system_information.
C15_ReadOnly ==
    \A c \in CallIds :
        calls[c].fetches > 0 =>
            /\ calls[c].reqMethod = "POST"
            /\ "operation" \in DOMAIN calls[c].sent
            /\ calls[c].sent.operation \in ReadOperations

\* a searchById request has been sent a second time, after a retry
C15_Witness ==
    \E c \in CallIds :
        /\ calls[c].op = "searchById"
        /\ calls[c].fetches = 2
        /\ calls[c].phase = "fetching"
        /\ calls[c].reqMethod = "POST"
        /\ calls[c].sent.operation = "search_by_id"

\* C34: schema data returned by describeAll, describeDatabase or describeTable
\* is never older than the TTL: the response it was derived from was received
\* at most 60,000 ms before the return.  (A call that returns without a request
\* of its own returns what a cache entry holds, and every entry holds data of a
\* response stored no later than the newest one, ageAtStart before the return.)
C34_NeverOlderThanTTL ==
    \A c \in CallIds :
        (/\ calls[c].op \in {"describeAll", "describeDatabase", "describeTable"}
         /\ calls[c].phase = "done"
         /\ calls[c].result = "ok"
         /\ calls[c].fetches = 0)
        => (calls[c].ageAtStart >= 0 /\ calls[c].ageAtStart <= cacheTTL)

\* C35: once a connect() has succeeded, every cache entry holds data fetched
\* from the endpoint of that connection, also when a describe call issued
\* against an earlier connection was in flight when connect() was called and
\* completes afterwards.
C35_CacheOfThisConnection ==
    (/\ connected
     /\ url # ""
     /\ \A c \in CallIds : calls[c].op = "connect" => calls[c].phase = "done")
    => \A k \in DOMAIN schemaCache :
          schemaCache[k].data.endpoint # "" => schemaCache[k].data.endpoint = url

\* C36: for any interleaving of connect() calls on one client, whenever
\* isConnected() is true the stored URL and auth header are non-empty, and they
\* are those passed to the connect() whose probe succeeded: a failing connect()
\* neither clears them nor leaves connected = true without them.
C36_ConnectedWithCredentials ==
    [][ /\ connected' => (url' # "" /\ authHeader' # "")
        /\ \A c \in CallIds :
              (/\ calls[c].op = "connect" /\ calls[c].phase = "fetching"
               /\ calls'[c].phase = "done" /\ calls'[c].result = "ok")
              => /\ url' = stripTrailingSlashes(calls[c].args.url)
                 /\ authHeader' = "Basic " \o btoa(calls[c].args.username \o ":"
                                                     \o calls[c].args.password) ]_vars

(***************************************************************************)
(* Claims about inferRelationships (SpecRel)                               *)
(***************************************************************************)
Edges == { relResult.edges[i] : i \in 1..Len(relResult.edges) }
ForwardEdges == { e \in Edges : e.direction = "forward" }
OwnAttributes ==
    { relInput.tableSchema.attributes[i] : i \in 1..Len(relInput.tableSchema.attributes) }

\* C16: an attribute (without relationship metadata) has a convention-based
\* forward edge exactly when stripping its 'Id' or '_id' suffix leaves a
\* non-empty base name that case-insensitively equals the name of some known
\* table other than the table itself, and the edge points at such a table.
C16_ConventionExactly ==
    relResult.done =>
        \A attr \in OwnAttributes :
            ~hasRelationTable(attr) =>
                LET base == baseNameOf(attr.attribute)
                    matches == { t \in knownTables(relInput.allTables) :
                                   /\ base # ""
                                   /\ t # relInput.tableName
                                   /\ toLowerCase(t) = toLowerCase(base) }
                    inferred == { e \in ForwardEdges :
                                    e.source = "inferred" /\ e.attribute = attr.attribute }
                IN /\ inferred # {} <=> matches # {}
                   /\ \A e \in inferred : e.targetTable \in matches

\* C17: if the result for table A holds a forward edge to another known table B
\* via attribute x, the result for B over the same table set holds a reverse
\* edge whose targetTable is A and whose reverseAttribute is x.
C17_ReverseSymmetric ==
    (relResult.done /\ relInput.tableName \in knownTables(relInput.allTables)) =>
        \A e \in ForwardEdges :
            (e.targetTable \in knownTables(relInput.allTables) \ {relInput.tableName}) =>
                LET back == inferRelationships(e.targetTable,
                                               schemaOf(relInput.allTables, e.targetTable),
                                               relInput.allTables)
                IN \E i \in 1..Len(back) :
                      /\ back[i].direction = "reverse"
                      /\ back[i].targetTable = relInput.tableName
                      /\ back[i].reverseAttribute = e.attribute

\* C18: the result for a known table T holds no forward edge whose targetTable
\* is T.
C18_NoSelfReference ==
    (relResult.done /\ relInput.tableName \in knownTables(relInput.allTables)) =>
        \A e \in ForwardEdges : e.targetTable # relInput.tableName

C20_EmptyResult ==
    relResult.done =>
        LET referenced ==
                \E i \in 1..Len(relInput.allTables) :
                    /\ relInput.allTables[i].name # relInput.tableName
                    /\ \E k \in 1..Len(relInput.allTables[i].schema.attributes) :
                          LET base == baseNameOf(relInput.allTables[i].schema.attributes[k].attribute)
                          IN base # "" /\ toLowerCase(base) = toLowerCase(relInput.tableName)
        IN /\ (relInput.tableSchema.attributes = <<>> /\ ~referenced) => relResult.edges = <<>>
           /\ relInput.allTables = <<>> => relResult.edges = <<>>

\* C39: if the result for a known table B holds a reverse edge with targetTable
\* A and reverseAttribute x, the result for A over the same table set holds a
\* forward edge via attribute x whose targetTable is B.
C39_ReverseHasForward ==
    (relResult.done /\ relInput.tableName \in knownTables(relInput.allTables)) =>
        \A k \in 1..Len(relResult.edges) :
            LET e == relResult.edges[k]
            IN e.direction = "reverse" =>
                  LET there == inferRelationships(e.targetTable,
                                                  schemaOf(relInput.allTables, e.targetTable),
                                                  relInput.allTables)
                  IN \E i \in 1..Len(there) :
                        /\ there[i].direction = "forward"
                        /\ there[i].attribute = e.reverseAttribute
                        /\ there[i].targetTable = relInput.tableName

(***************************************************************************)
(* Claims about DataTable windowing (SpecRows, SpecColumns)                *)
(***************************************************************************)
\* C21: for totalRows >= 1, maxVisibleRows >= 1 and 0 <= selectedRow < totalRows
\* the row window [windowStart, windowEnd) has size min(maxVisibleRows,
\* totalRows), lies within 0..totalRows, starts at 0 when selectedRow is smaller
\* than the window size and otherwise ends at selectedRow + 1; 100 rows with 10
\* visible give [0,10) for 0, [46,56) for 55 and [90,100) for 99.
C21_RowWindow ==
    LET p == tableProps
        windowSize == Min(p.maxVisibleRows, p.rows)
        window == <<tableView.windowStart, tableView.windowEnd>>
    IN (/\ tableView.rendered
        /\ p.rows >= 1 /\ p.maxVisibleRows >= 1
        /\ 0 <= p.selectedRow /\ p.selectedRow < p.rows)
       => /\ window[2] - window[1] = windowSize
          /\ 0 <= window[1]
          /\ window[2] <= p.rows
          /\ p.selectedRow < windowSize => window[1] = 0
          /\ p.selectedRow >= windowSize => window[2] = p.selectedRow + 1
          /\ (p.rows = 100 /\ p.maxVisibleRows = 10) =>
                /\ p.selectedRow = 0 => window = <<0, 10>>
                /\ p.selectedRow = 55 => window = <<46, 56>>
                /\ p.selectedRow = 99 => window = <<90, 100>>

\* a page longer than the window, rendered with the selection below the first
\* window: the window trails the selection
C21_Witness ==
    /\ tableView.rendered
    /\ tableProps.rows = 100 /\ tableProps.selectedRow = 55
    /\ tableView.windowStart = 46 /\ tableView.windowEnd = 56

\* C22: the first visible column is colStart clamped to [0, maxStart], maxStart
\* being the smallest index from which every column up to the last fits in the
\* budget with a gap of 2 between columns (the last index when not even the last
\* column fits); for every colStart >= maxStart the visible columns are exactly
\* maxStart..last and hiddenRight = 0.
C22_NoDeadSpace ==
    LET widths == naturalWidths(tableProps.contentWidths)
        n == Len(widths)
        budget == tableProps.effectiveWidth - ROW_MARKER_WIDTH
        span[i \in 0..n] == IF i = n THEN 0 - COL_GAP
                            ELSE widths[i + 1] + COL_GAP + span[i + 1]
        fitting == { i \in 0..(n - 1) : span[i] <= budget }
        maxStart == IF fitting = {} THEN n - 1
                    ELSE CHOOSE i \in fitting : \A j \in fitting : i <= j
    IN (tableView.rendered /\ n >= 1)
       => /\ tableView.hiddenLeft = Max(0, Min(tableProps.colStart, maxStart))
          /\ tableProps.colStart >= maxStart =>
                /\ tableView.columns = [k \in 1..(n - maxStart) |-> maxStart + k - 1]
                /\ tableView.hiddenRight = 0

\* scrolled past the last legal start: the window is pulled back so that it
\* still ends at the last column, with columns hidden on the left only
C22_Witness ==
    /\ tableView.rendered
    /\ tableProps.colStart > tableView.hiddenLeft
    /\ tableView.hiddenLeft > 0
    /\ Len(tableView.columns) >= 2
    /\ tableView.hiddenRight = 0

\* C23: with at least one column, at least one column is visible; when the
\* column at the starting index does not fit it is the only one shown, clipped
\* to max(8, budget); and hiddenLeft + visible + hiddenRight is the number of
\* columns, the visible ones being the contiguous run from index hiddenLeft.
C23_AtLeastOneColumn ==
    LET widths == naturalWidths(tableProps.contentWidths)
        n == Len(widths)
        budget == tableProps.effectiveWidth - ROW_MARKER_WIDTH
        visible == tableView.columns
    IN tableView.rendered
       => /\ n >= 1 => Len(visible) >= 1
          /\ (n >= 1 /\ widths[tableView.hiddenLeft + 1] > budget) =>
                /\ visible = <<tableView.hiddenLeft>>
                /\ tableView.colWidths = <<Max(MIN_COL_WIDTH, budget)>>
          /\ tableView.hiddenLeft + Len(visible) + tableView.hiddenRight = n
          /\ \A k \in 1..Len(visible) : visible[k] = tableView.hiddenLeft + k - 1
          /\ Len(tableView.colWidths) = Len(visible)

\* a first column wider than the terminal, shown alone and clipped, with more
\* columns hidden to its right
C23_Witness ==
    /\ tableView.rendered
    /\ Len(tableView.columns) = 1
    /\ tableView.colWidths[1] < naturalWidths(tableProps.contentWidths)[tableView.hiddenLeft + 1]
    /\ tableView.hiddenRight > 0

(***************************************************************************)
(* Claims about useApi (SpecApi, SpecApiRender)                            *)
(***************************************************************************)
\* the state fields of the coordinator
StateFields(a) == <<a.data, a.loading, a.error, a.queryTime>>

\* run i of the coordinator ends in this step
Settles(i) ==
    /\ i \in 1..Len(hook.runs)
    /\ hook.runs[i].promise = "pending"
    /\ hook'.runs[i].promise # "pending"

\* C24: once the owner has been torn down no state field (data, loading, error,
\* elapsed) changes any more: what an execute() completes with after the
\* teardown is discarded.
C24_NoMutationAfterTeardown ==
    [][hook.phase = "unmounted" => StateFields(hook') = StateFields(hook)]_vars

\* the owner is gone, and an operation completed after that
C24_Witness ==
    /\ hook.phase = "unmounted"
    /\ \E i \in 1..Len(hook.runs) :
          hook.runs[i].promise = "fulfilled" /\ ~hook.runs[i].applied

\* C25: whatever the operation rejects with or throws, the promise of execute()
\* and retry() is fulfilled, and while the owner is mounted error becomes the
\* failure's message, else its string form, else 'An unexpected error occurred'.
C25_NeverThrows ==
    [][\A i \in 1..Len(hook.runs) :
          (Settles(i) /\ hook'.runs[i].failure # NoFailure) =>
             LET f == hook'.runs[i].failure
                 hasMessage == f.message # NoValue /\ f.message # ""
                 hasText == f.str # NoValue /\ f.str # ""
             IN /\ hook'.runs[i].promise = "fulfilled"
                /\ hook.mountedRef =>
                      hook'.error = IF hasMessage THEN f.message
                                    ELSE IF hasText THEN f.str
                                    ELSE "An unexpected error occurred"]_vars

\* a retry whose operation threw a value with neither message nor string form
C25_Witness ==
    /\ hook.error = "An unexpected error occurred"
    /\ \E i \in 1..Len(hook.runs) :
          /\ hook.runs[i].origin = "retry"
          /\ hook.runs[i].failure.type = "bare"
          /\ hook.runs[i].promise = "fulfilled"

\* C26: retry() invokes the operation with the argument list of the most recent
\* execute() call, whatever became of that call, and with no arguments when
\* there was none.
C26_RetryLastArgs ==
    \A i \in 1..Len(hook.runs) :
        hook.runs[i].origin = "retry" =>
            /\ hook.runs[i].args = IF i = 1 THEN <<>> ELSE hook.runs[i - 1].args
            /\ hook.lastArgs = hook.runs[Len(hook.runs)].args

\* execute() without arguments, then with arguments and still in flight, then
\* retry(): the third call has the arguments of the second
C26_Witness ==
    /\ Len(hook.runs) = 3
    /\ hook.runs[1].args = <<>>
    /\ hook.runs[2].args = <<"name", "test">> /\ hook.runs[2].promise = "pending"
    /\ hook.runs[3].origin = "retry" /\ hook.runs[3].args = <<"name", "test">>

\* the calls of execute() made by the effect of the immediate flag
Automatic(a) == { i \in 1..Len(a.runs) : a.runs[i].origin = "effect" }

\* C27, as stated: over the lifetime of a coordinator the operation is invoked
\* automatically at most once, and that call is the first.
C27_OnceOnly == Automatic(hook) \subseteq {1}

\* C27: with the immediate flag set, execute() is called with no arguments when
\* the owner mounts, and again each time the owner renders with another
\* operation or with the flag changed and set; no other step invokes the
\* operation automatically, and with the flag not set none does.
C27_OncePerChange ==
    [][LET mounting == hook.phase = "created" /\ hook'.phase = "mounted"
           changed == /\ hook.phase = "mounted"
                      /\ <<hook'.apiFn, hook'.immediate>> # <<hook.apiFn, hook.immediate>>
           n == Len(hook'.runs)
       IN IF (mounting \/ changed) /\ hook'.immediate
          THEN /\ n = Len(hook.runs) + 1
               /\ hook'.runs[n].origin = "effect"
               /\ hook'.runs[n].args = <<>>
               /\ hook'.runs[n].fn = hook'.apiFn
          ELSE Automatic(hook') = Automatic(hook)]_vars

\* mounted with the flag set, then rendered with another operation: both
\* operations were invoked by the effect
C27_Witness ==
    /\ Len(hook.runs) >= 2
    /\ hook.runs[1].origin = "effect"
    /\ hook.runs[2].origin = "effect"
    /\ hook.runs[1].fn # hook.runs[2].fn

\* C28: starting an execute() clears error and keeps data; a failed execute()
\* keeps data and sets error to a message; a successful execute() replaces data
\* and leaves error none; elapsed is set on both.
C28_DataErrorCells ==
    [][/\ Len(hook'.runs) > Len(hook.runs) =>
             hook'.error = Null /\ hook'.data = hook.data
       /\ \A i \in 1..Len(hook.runs) :
             (Settles(i) /\ hook.mountedRef) =>
                IF hook'.runs[i].failure # NoFailure
                THEN /\ hook'.data = hook.data
                     /\ hook'.error # Null
                     /\ hook'.queryTime # NullTime
                ELSE /\ hook'.data = hook'.runs[i].result
                     /\ hook'.error = Null
                     /\ hook'.queryTime # NullTime]_vars

\* the calls of the coordinator still in flight
InFlight(a) == { i \in 1..Len(a.runs) : a.runs[i].promise = "pending" }

\* C32: when several execute()/retry() calls of one coordinator overlap, then
\* once all of them have completed, data and error are the outcome of the call
\* started last: an earlier call completing later does not overwrite it.
C32_LatestCallWins ==
    (/\ hook.mountedRef
     /\ Len(hook.runs) > 0
     /\ InFlight(hook) = {}
     /\ \A i \in 1..Len(hook.runs) : hook.runs[i].applied)
    => LET last == hook.runs[Len(hook.runs)]
       IN IF last.failure # NoFailure
          THEN hook.error = errorMessage(last.failure)
          ELSE hook.data = last.result /\ hook.error = Null

\* C33: while the owner is mounted, loading is true exactly when at least one
\* execute() is in flight.
C33_LoadingIffInFlight ==
    hook.mountedRef => (hook.loading <=> InFlight(hook) # {})

C30_RecentConnections ==
    LET entries == connFile.entries
        n == Len(entries)
        lastSave(c) == CHOOSE i \in 1..Len(saved.pairs) :
                          /\ saved.pairs[i] = c
                          /\ \A j \in (i + 1)..Len(saved.pairs) : saved.pairs[j] # c
    IN /\ n <= recentLimit
       /\ \A i, j \in 1..n :
             i < j => ~(/\ entries[i].url = entries[j].url
                        /\ entries[i].username = entries[j].username)
       /\ saved.pairs # <<>> => (n >= 1 /\ entries[1] = saved.pairs[Len(saved.pairs)])
       /\ \A i \in 1..n : \E k \in 1..Len(saved.pairs) : saved.pairs[k] = entries[i]
       /\ \A i, j \in 1..n : i < j => lastSave(entries[i]) > lastSave(entries[j])
       /\ \A i \in 1..n : DOMAIN entries[i] = {"url", "username"}

\* an eleventh connection was saved: the list is full and the oldest one is gone
C30_Witness ==
    /\ saved.calls >= 1
    /\ Len(connFile.entries) = recentLimit
    /\ \E k \in 1..Len(saved.pairs) :
          \A i \in 1..Len(connFile.entries) : connFile.entries[i] # saved.pairs[k]

(***************************************************************************)
(* Claims about the table screen (SpecOverlay, SpecTable)                  *)
(***************************************************************************)
\* C31: while an overlay of the table screen is open, an Escape keypress only
\* closes the overlay: it neither pops the navigation stack nor starts the
\* quit, in whichever order the screen's and the App's handlers receive it.
C31_EscapeOnlyClosesOverlay ==
    [][(/\ current.screen = "table"
        /\ tableScreen.overlay # "none"
        /\ app'.keys = app.keys + 1
        /\ app'.lastKey.input = "escape")
       => (/\ navState' = navState
           /\ app'.quitting = app.quitting)]_vars

\* C37: whenever the table screen displays rows, the selected row is one of
\* them: 0 <= selectedRow < displayData.length.
C37_SelectionInRange ==
    displayLength(tableScreen) > 0
        => /\ 0 <= tableScreen.selectedRow
           /\ tableScreen.selectedRow < displayLength(tableScreen)

\* C38: every page request of the table screen asks for offset = page * L and
\* limit = L, L the effective page limit when the request is made.
C38_PageOffset ==
    \A r \in tableScreen.requests : r.offset = r.page * r.limit


=============================================================================
